---- MODULE Spec2Model ----
(***************************************************************************)
(* Model of the trdr trading core: the broker base class with its          *)
(* staleness discipline and order admission (core/broker/base_broker.py),  *)
(* the three PDT policies (core/broker/pdt/*.py) and the one-shot trading  *)
(* cycle Strategy.execute (core/strategy/strategy.py).                     *)
(***************************************************************************)
EXTENDS Integers, Sequences, FiniteSets, TLC

None == "None"

\* None in an integer-valued field
NoneInt == -1

\* None in the positions field (otherwise a set of held symbols)
NonePositions == {None}

\* The watchlist universe and the per-symbol position data the mock
\* brokerage hands out on refresh.
Symbols == {"AAPL", "MSFT"}

Quantity(s) == IF s = "AAPL" THEN 10 ELSE 5

AverageCost(s) == IF s = "AAPL" THEN 100 ELSE 200

Cash == 10000

Equity == 15000

\* timedelta(minutes=10) in _stale_handler
StaleMinutes == 10

\* the hard day-trade limit used by Nun and Wiggle
DayTradeLimit == 3

\* default wiggle room of WiggleStrategy
DefaultWiggleRoom == 2

\* ---- bounds of the model ----
\* the clock advances in steps of just over half the staleness window: one
\* step leaves a refreshed state current, two steps make it expire
TickMinutes == StaleMinutes \div 2 + 1

MaxTime == 12

MaxDayTradeCount == 3

MaxOpenedToday == 4

MaxRollingCount == 4

MaxWiggleRoom == 2

OrderAmounts == {2000}

Sides == {"BUY", "SELL"}

ReadOps == {"get_available_cash", "get_position", "get_positions", "get_equity",
            "get_account_exposure", "get_position_exposure"}

RefreshOutcomes == {"ok", "raise", "partial"}

CallOutcomes == {"ok", "raise"}

Policies == {[kind |-> "Nun", wiggle_room |-> 0],
             [kind |-> "Wiggle", wiggle_room |-> DefaultWiggleRoom],
             [kind |-> "Yolo", wiggle_room |-> 0]}

(***************************************************************************)
(* PDT policies: evaluate_order(context) -> PDTDecision                    *)
(***************************************************************************)
PDTContext(symbol, side, k, d, opened) ==
    [symbol |-> symbol, side |-> side, positions_opened_today |-> k,
     rolling_day_trade_count |-> d, position_opened_today |-> opened]

PDTDecision(allowed, reason) == [allowed |-> allowed, reason |-> reason]

NoDecision == [allowed |-> FALSE, reason |-> None]

NoContext == [symbol |-> None, side |-> None, positions_opened_today |-> 0,
              rolling_day_trade_count |-> 0, position_opened_today |-> FALSE]

NunEvaluateOffByOne(context) ==
    IF context.side = "BUY"
    THEN IF context.positions_opened_today <= DayTradeLimit - context.rolling_day_trade_count
         THEN PDTDecision(TRUE, "sufficient day trades available")
         ELSE PDTDecision(FALSE, "insufficient day trades available")
    ELSE IF ~context.position_opened_today
         THEN PDTDecision(TRUE, "not a day trade")
         ELSE IF context.rolling_day_trade_count < DayTradeLimit
              THEN PDTDecision(TRUE, "day trade available for position opened today")
              ELSE PDTDecision(FALSE, "no day trades available")

\* (variant: a BUY looks at the day trades used only, not at the positions opened today)
NunEvaluateCountOnly(context) ==
    IF context.side = "BUY"
    THEN IF context.rolling_day_trade_count < DayTradeLimit
         THEN PDTDecision(TRUE, "sufficient day trades available")
         ELSE PDTDecision(FALSE, "insufficient day trades available")
    ELSE IF ~context.position_opened_today
         THEN PDTDecision(TRUE, "not a day trade")
         ELSE IF context.rolling_day_trade_count < DayTradeLimit
              THEN PDTDecision(TRUE, "day trade available for position opened today")
              ELSE PDTDecision(FALSE, "no day trades available")

NunEvaluate(context) ==
    IF context.side = "BUY"
    THEN LET available_day_trades == DayTradeLimit - context.rolling_day_trade_count
         IN IF context.positions_opened_today < available_day_trades
            THEN PDTDecision(TRUE, "sufficient day trades available")
            ELSE PDTDecision(FALSE, "insufficient day trades available")
    ELSE IF ~context.position_opened_today
         THEN PDTDecision(TRUE, "not a day trade")
         ELSE IF context.rolling_day_trade_count < DayTradeLimit
              THEN PDTDecision(TRUE, "day trade available for position opened today")
              ELSE PDTDecision(FALSE, "no day trades available")

\* (variant: the wiggle room is not added to the limit)
WiggleEvaluateNoRoom(context, wiggle_room) ==
    IF context.side = "BUY"
    THEN LET max_positions == DayTradeLimit - context.rolling_day_trade_count
         IN IF context.positions_opened_today < max_positions
            THEN PDTDecision(TRUE, "within wiggle room")
            ELSE PDTDecision(FALSE, "exceeds wiggle room")
    ELSE IF ~context.position_opened_today
         THEN PDTDecision(TRUE, "not a day trade")
         ELSE IF context.rolling_day_trade_count < DayTradeLimit
              THEN PDTDecision(TRUE, "day trade available for position opened today")
              ELSE PDTDecision(FALSE, "no day trades available")

WiggleEvaluate(context, wiggle_room) ==
    IF context.side = "BUY"
    THEN LET max_positions == (DayTradeLimit - context.rolling_day_trade_count) + wiggle_room
         IN IF context.positions_opened_today < max_positions
            THEN PDTDecision(TRUE, "within wiggle room")
            ELSE PDTDecision(FALSE, "exceeds wiggle room")
    ELSE IF ~context.position_opened_today
         THEN PDTDecision(TRUE, "not a day trade")
         ELSE IF context.rolling_day_trade_count < DayTradeLimit
              THEN PDTDecision(TRUE, "day trade available for position opened today")
              ELSE PDTDecision(FALSE, "no day trades available")

\* (variant: a same-day SELL is denied only once the day trades are used up)
YoloEvaluateDayTradeAware(context) ==
    IF context.side = "BUY"
    THEN PDTDecision(TRUE, "YOLO strategy permits unlimited buys")
    ELSE IF ~context.position_opened_today
         THEN PDTDecision(TRUE, "position not opened today")
         ELSE IF context.rolling_day_trade_count < DayTradeLimit
              THEN PDTDecision(TRUE, "position not opened today")
              ELSE PDTDecision(FALSE, "Cannot sell position opened today under YOLO strategy")

YoloEvaluate(context) ==
    IF context.side = "BUY"
    THEN PDTDecision(TRUE, "YOLO strategy permits unlimited buys")
    ELSE IF ~context.position_opened_today
         THEN PDTDecision(TRUE, "position not opened today")
         ELSE PDTDecision(FALSE, "Cannot sell position opened today under YOLO strategy")

\* (variant: every SELL needs a day trade, opened today or not)
evaluate_order_sell_needs_day_trade(policy, context) ==
    IF context.side = "SELL" /\ context.rolling_day_trade_count >= DayTradeLimit
    THEN PDTDecision(FALSE, "no day trades available")
    ELSE CASE policy.kind = "Nun" -> NunEvaluate(context)
           [] policy.kind = "Wiggle" -> WiggleEvaluate(context, policy.wiggle_room)
           [] policy.kind = "Yolo" -> YoloEvaluate(context)

evaluate_order(policy, context) ==
    CASE policy.kind = "Nun" -> NunEvaluate(context)
      [] policy.kind = "Wiggle" -> WiggleEvaluate(context, policy.wiggle_room)
      [] policy.kind = "Yolo" -> YoloEvaluate(context)

(***************************************************************************)
(* State                                                                   *)
(***************************************************************************)
VARIABLES
    broker,        \* BaseBroker fields: cash, equity, positions, day_trade_count, updated_dt, is_stale_flag
    w_positions,   \* the brokerage account: symbols currently held
    w_opened,      \* symbols the subclass reports as opened today
    w_dtc,         \* the account's rolling day trade count
    now,           \* wall clock, minutes
    pdt_strategy,  \* the active PDT policy
    last,          \* what the most recent public broker call did (NoCall when a cycle starts)
    context,       \* the PDTContext handed to the policy by the most recent evaluation
    decision,      \* the PDTDecision it returned
    engine,        \* Strategy.execute: position in the cycle
    cycle,         \* per-security record of the current cycle
    ast,           \* a DSL expression under evaluation and what evaluating it did
    security,      \* a Security's moving averages and the crossover computed from them
    lexer,         \* a source text and the tokens made of it
    order,         \* an Order being constructed and what its validator did
    parser,        \* a token list and what parsing it gave
    day,           \* a trading day under one policy: positions opened today, day trades used
    tasks          \* the public broker calls in flight at once, each at its suspension point

vars == <<broker, w_positions, w_opened, w_dtc, now, pdt_strategy, last, context, decision, engine, cycle,
          ast, security, lexer, order, parser, day, tasks>>

\* the variables of the pure computations (DSL evaluation, crossover, lexing)
pureVars == <<ast, security, lexer, order, parser, day, tasks>>

\* nothing under evaluation
Unused == [done |-> FALSE]

worldVars == <<w_positions, w_opened, w_dtc>>

pdtVars == <<context, decision>>

engineVars == <<engine, cycle>>

(***************************************************************************)
(* BaseBroker                                                              *)
(***************************************************************************)
_clear_current_state(b) ==
    [b EXCEPT !.cash = NoneInt, !.positions = NonePositions, !.equity = NoneInt,
              !.day_trade_count = NoneInt, !.updated_dt = NoneInt]

\* an entry of positions that is not a Position
NotAPosition == "NotAPosition"

\* _refresh of the concrete subclass: re-populates the fields from the
\* account, raises, returns having set only cash and equity, or returns with
\* an entry in positions that is not a Position.
_refresh(b, outcome) ==
    CASE outcome = "ok" -> [b EXCEPT !.cash = Cash, !.equity = Equity,
                                     !.positions = w_positions, !.day_trade_count = w_dtc]
      [] outcome = "partial" -> [b EXCEPT !.cash = Cash, !.equity = Equity]
      [] outcome = "non_position" -> [b EXCEPT !.cash = Cash, !.equity = Equity,
                                               !.positions = w_positions \cup {NotAPosition},
                                               !.day_trade_count = w_dtc]
      [] outcome = "raise" -> b

\* (variant: the entries of positions are not looked at)
_is_state_in_good_order_any_entries(b) ==
    /\ b.cash # NoneInt
    /\ b.positions # NonePositions
    /\ b.equity # NoneInt
    /\ b.day_trade_count # NoneInt

_is_state_in_good_order(b) ==
    /\ b.cash # NoneInt
    /\ b.positions # NonePositions
    /\ \A position \in b.positions : position \in Symbols
    /\ b.equity # NoneInt
    /\ b.day_trade_count # NoneInt

IsExpired(b, t) == b.updated_dt < t - StaleMinutes

\* _stale_handler: the resulting broker, the exception it raised (None if it
\* returned) and the number of _refresh invocations.
_stale_handler(b, t, outcome) ==
    IF b.updated_dt = NoneInt
    THEN [b |-> b, exc |-> "AttributeError", refreshes |-> 0]
    ELSE LET b1 == IF IsExpired(b, t) THEN [b EXCEPT !.is_stale_flag = TRUE] ELSE b
         IN IF b1.is_stale_flag
            THEN LET b2 == _refresh(_clear_current_state(b1), outcome)
                     b3 == [b2 EXCEPT !.updated_dt = t]
                 IN CASE outcome = "raise" -> [b |-> b2, exc |-> "BrokerException", refreshes |-> 1]
                      [] ~_is_state_in_good_order(b3) -> [b |-> b3, exc |-> "ValueError", refreshes |-> 1]
                      [] OTHER -> [b |-> [b3 EXCEPT !.is_stale_flag = FALSE], exc |-> None, refreshes |-> 1]
            ELSE [b |-> [b1 EXCEPT !.is_stale_flag = FALSE], exc |-> None, refreshes |-> 0]

_position_opened_today(symbol) == symbol \in w_opened

_get_positions_opened_today_count(b) ==
    Cardinality({s \in b.positions : _position_opened_today(s)})

\* (variant: a denial by the policy is not turned into an exception)
_validate_pre_order_ignoring_denial(b, symbol, side) ==
    LET ctx0 == PDTContext(symbol, side, 0, b.day_trade_count, FALSE)
    IN IF side = "SELL" /\ symbol \notin b.positions
       THEN [context |-> ctx0, consulted |-> FALSE, decision |-> NoDecision,
             exc |-> "NoPositionException", reason |-> "Cannot sell: no position exists"]
       ELSE LET ctx == IF side = "BUY"
                       THEN [ctx0 EXCEPT !.positions_opened_today = _get_positions_opened_today_count(b)]
                       ELSE [ctx0 EXCEPT !.position_opened_today = _position_opened_today(symbol)]
                d == evaluate_order(pdt_strategy, ctx)
            IN [context |-> ctx, consulted |-> TRUE, decision |-> d, exc |-> None, reason |-> None]

\* (variant: a SELL is handed to the policy without looking for the position)
_validate_pre_order_without_position_check(b, symbol, side) ==
    LET ctx0 == PDTContext(symbol, side, 0, b.day_trade_count, FALSE)
        ctx == IF side = "BUY"
               THEN [ctx0 EXCEPT !.positions_opened_today = _get_positions_opened_today_count(b)]
               ELSE [ctx0 EXCEPT !.position_opened_today = _position_opened_today(symbol)]
        d == evaluate_order(pdt_strategy, ctx)
    IN [context |-> ctx, consulted |-> TRUE, decision |-> d,
        exc |-> IF d.allowed THEN None ELSE "PDTRuleViolationException",
        reason |-> IF d.allowed THEN None ELSE d.reason]

\* _validate_pre_order: the context built, whether the policy was consulted,
\* its decision and the exception raised (None if the order is admitted).
_validate_pre_order(b, symbol, side) ==
    LET ctx0 == PDTContext(symbol, side, 0, b.day_trade_count, FALSE)
    IN IF side = "SELL" /\ symbol \notin b.positions
       THEN [context |-> ctx0, consulted |-> FALSE, decision |-> NoDecision,
             exc |-> "NoPositionException", reason |-> "Cannot sell: no position exists"]
       ELSE LET ctx == IF side = "BUY"
                       THEN [ctx0 EXCEPT !.positions_opened_today = _get_positions_opened_today_count(b)]
                       ELSE [ctx0 EXCEPT !.position_opened_today = _position_opened_today(symbol)]
                d == evaluate_order(pdt_strategy, ctx)
            IN [context |-> ctx, consulted |-> TRUE, decision |-> d,
                exc |-> IF d.allowed THEN None ELSE "PDTRuleViolationException",
                reason |-> IF d.allowed THEN None ELSE d.reason]

NoCall == [op |-> None, result |-> None, reason |-> None, handler_ran |-> FALSE,
           stale_before |-> FALSE, refreshes |-> 0, pdt_consulted |-> FALSE, placed |-> FALSE]

WasStale(b, t) == b.is_stale_flag \/ (b.updated_dt # NoneInt /\ IsExpired(b, t))

\* The ways the _refresh of this call can end (no choice if none is due).
RefreshChoices(b, t) == IF WasStale(b, t) THEN RefreshOutcomes ELSE {"ok"}

\* The symbol argument of a read, None for the reads that take none.
ReadArgs(op) == IF op \in {"get_position", "get_position_exposure"} THEN Symbols ELSE {None}

\* A public read: the stale handler, then the field is returned.
ReadCall(b, t, op, symbol, outcome) ==
    LET h == _stale_handler(b, t, outcome)
    IN [b |-> h.b,
        ret |-> IF h.exc # None THEN NonePositions
                ELSE IF op \in {"get_position", "get_position_exposure"}
                     THEN h.b.positions \cap {symbol}
                     ELSE h.b.positions,
        call |-> [NoCall EXCEPT !.op = "read",
                                !.result = IF h.exc = None THEN "ok" ELSE h.exc,
                                !.handler_ran = TRUE, !.stale_before = WasStale(b, t),
                                !.refreshes = h.refreshes]]

\* place_order: stale handler, admission, _place_order, then the stale flag.
PlaceOrderCall(b, t, symbol, side, amount, outcome, placing) ==
    LET h == _stale_handler(b, t, outcome)
        v == _validate_pre_order(h.b, symbol, side)
        base == [NoCall EXCEPT !.op = "place_order", !.handler_ran = TRUE,
                               !.stale_before = WasStale(b, t), !.refreshes = h.refreshes]
    IN IF h.exc # None
       THEN [b |-> h.b, context |-> NoContext, decision |-> NoDecision,
             call |-> [base EXCEPT !.result = h.exc]]
       ELSE IF v.exc # None
            THEN [b |-> h.b, context |-> v.context, decision |-> v.decision,
                  call |-> [base EXCEPT !.result = v.exc, !.reason = v.reason,
                                        !.pdt_consulted = v.consulted]]
            ELSE IF placing = "raise"
                 THEN [b |-> h.b, context |-> v.context, decision |-> v.decision,
                       call |-> [base EXCEPT !.result = "PlaceOrderError", !.pdt_consulted = TRUE,
                                             !.placed = TRUE]]
                 ELSE [b |-> [h.b EXCEPT !.is_stale_flag = TRUE],
                       context |-> v.context, decision |-> v.decision,
                       call |-> [base EXCEPT !.result = "ok", !.pdt_consulted = TRUE,
                                             !.placed = TRUE]]

\* cancel_all_orders: _cancel_all_orders, then the stale flag.
CancelAllOrdersCall(b, t, cancelling) ==
    IF cancelling = "raise"
    THEN [b |-> b, call |-> [NoCall EXCEPT !.op = "cancel_all_orders", !.result = "BrokerException",
                                           !.stale_before = WasStale(b, t)]]
    ELSE [b |-> [b EXCEPT !.is_stale_flag = TRUE],
          call |-> [NoCall EXCEPT !.op = "cancel_all_orders", !.result = "ok",
                                  !.stale_before = WasStale(b, t)]]

Order(symbol, side, amount) == [symbol |-> symbol, side |-> side, amount |-> amount]

(***************************************************************************)
(* Initial state: a broker returned by create() (its first refresh done),  *)
(* an idle engine.                                                         *)
(***************************************************************************)
IdleEngine == [pc |-> "idle", securities |-> <<>>, i |-> 0, error |-> None,
               first_read_refreshes |-> NoneInt, orders |-> <<>>]

Init ==
    /\ ast = Unused
    /\ security = Unused
    /\ lexer = Unused
    /\ order = Unused
    /\ parser = Unused
    /\ day = Unused
    /\ tasks = Unused
    /\ w_positions \in SUBSET Symbols
    /\ w_opened \in SUBSET w_positions
    /\ w_dtc \in 0..MaxDayTradeCount
    /\ now = 0
    /\ pdt_strategy \in Policies
    /\ broker = [cash |-> Cash, equity |-> Equity, positions |-> w_positions,
                 day_trade_count |-> w_dtc, updated_dt |-> 0, is_stale_flag |-> FALSE]
    /\ last = NoCall
    /\ context = NoContext
    /\ decision = NoDecision
    /\ engine = IdleEngine
    /\ cycle = <<>>

EngineIdle == engine.pc \in {"idle", "done", "failed"}

(***************************************************************************)
(* Environment: time passes, the account changes behind the broker's back. *)
(***************************************************************************)
Tick ==
    /\ now + TickMinutes <= MaxTime
    /\ now' = now + TickMinutes
    /\ UNCHANGED <<broker, worldVars, pdt_strategy, pureVars, last, pdtVars, engineVars>>

\* A position disappears from the account, or appears in it (opened today or
\* carried in from an earlier day).
AccountChange(symbol) ==
    /\ IF symbol \in w_positions
       THEN /\ w_positions' = w_positions \ {symbol}
            /\ w_opened' = w_opened \ {symbol}
       ELSE /\ w_positions' = w_positions \cup {symbol}
            /\ w_opened' \in {w_opened, w_opened \cup {symbol}}
    /\ UNCHANGED <<broker, w_dtc, now, pdt_strategy, pureVars, last, pdtVars, engineVars>>

(***************************************************************************)
(* Public broker calls made by an outside caller while no cycle runs.      *)
(***************************************************************************)
Read(op, symbol) ==
    /\ EngineIdle
    /\ \E outcome \in RefreshChoices(broker, now) :
          LET r == ReadCall(broker, now, op, symbol, outcome)
          IN /\ broker' = r.b
             /\ last' = r.call
    /\ context' = NoContext
    /\ decision' = NoDecision
    /\ UNCHANGED <<worldVars, now, pdt_strategy, pureVars, engineVars>>

place_order(symbol, side, amount) ==
    /\ EngineIdle
    /\ \E outcome \in RefreshChoices(broker, now), placing \in CallOutcomes :
          LET r == PlaceOrderCall(broker, now, symbol, side, amount, outcome, placing)
          IN /\ broker' = r.b
             /\ last' = r.call
             /\ context' = r.context
             /\ decision' = r.decision
    /\ UNCHANGED <<worldVars, now, pdt_strategy, pureVars, engineVars>>

cancel_all_orders ==
    /\ EngineIdle
    /\ \E cancelling \in CallOutcomes :
          LET r == CancelAllOrdersCall(broker, now, cancelling)
          IN /\ broker' = r.b
             /\ last' = r.call
    /\ context' = NoContext
    /\ decision' = NoDecision
    /\ UNCHANGED <<worldVars, now, pdt_strategy, pureVars, engineVars>>

BrokerCall ==
    \/ \E op \in ReadOps : \E symbol \in ReadArgs(op) : Read(op, symbol)
    \/ \E symbol \in Symbols, side \in Sides, amount \in OrderAmounts : place_order(symbol, side, amount)
    \/ cancel_all_orders

Environment == Tick \/ \E symbol \in Symbols : AccountChange(symbol)

NextBroker == BrokerCall \/ Environment

SpecBroker == Init /\ [][NextBroker]_vars

(***************************************************************************)
(* Strategy.execute: one trading cycle                                     *)
(***************************************************************************)
\* What evaluate_entry / evaluate_exit can do: return a boolean, raise
\* MissingContextValue, or raise anything else.
EvalOutcomes == {"true", "false", "MissingContextValue", "ArithmeticError"}

\* What evaluate_sizing can do: return an amount or raise.
SizingOutcomes == {2000}

SizingFailures == {"ValueError", "MissingContextValue"}

SizingResults == {[exc |-> None, amount |-> a] : a \in SizingOutcomes}
                 \cup {[exc |-> f, amount |-> 0] : f \in SizingFailures}

\* line 196: sizing is evaluated only for an entry that evaluated true
SizingChoices(held, outcome) ==
    IF outcome = "true" /\ ~held THEN SizingResults ELSE {[exc |-> None, amount |-> 0]}

\* get_security_list: the watchlist, each symbol once, in the provider's order.
SecurityLists ==
    {<<s>> : s \in Symbols} \cup {<<s, t>> : <<s, t>> \in {x \in Symbols \X Symbols : x[1] # x[2]}}

NoEntry(symbol) ==
    [symbol |-> symbol, held |-> FALSE, outcome |-> None, sizing |-> 0, sizing_exc |-> None,
     side |-> None, amount |-> 0, result |-> None]

\* n consecutive public reads; the first that raises ends the sequence.
RECURSIVE ReadSeq(_, _, _, _)
ReadSeq(b, t, n, outcome) ==
    LET r == ReadCall(b, t, "get_position", None, outcome)
    IN IF n = 1 \/ r.call.result # "ok"
       THEN [b |-> r.b, call |-> r.call, first |-> r.call]
       ELSE LET rest == ReadSeq(r.b, t, n - 1, "ok")
            IN [b |-> rest.b, call |-> rest.call, first |-> r.call]

\* the four broker reads of build_context
ContextReads == 4

\* (variant: the list is walked from its end)
SecurityAtReversed(securities, i) == securities[Len(securities) + 1 - i]

\* the security handled by iteration i of the for loop
SecurityAt(securities, i) == securities[i]

\* (variant: no except clause)
IsSkippedNever(outcome) == FALSE

\* the except clauses of the loop: which evaluation errors only skip the symbol
IsSkipped(outcome) == outcome = "MissingContextValue"

\* (variant: the position's quantity is used as the amount of a BUY as well)
OrderForQuantity(symbol, held, outcome, sizing) ==
    IF outcome # "true"
    THEN [place |-> FALSE, side |-> None, amount |-> 0]
    ELSE IF held
         THEN [place |-> TRUE, side |-> "SELL", amount |-> Quantity(symbol)]
         ELSE [place |-> TRUE, side |-> "BUY", amount |-> Quantity(symbol)]

\* lines 176-197: the order execute() asks the broker for, given whether a
\* position is held and how the evaluation went.
OrderFor(symbol, held, outcome, sizing) ==
    IF outcome # "true"
    THEN [place |-> FALSE, side |-> None, amount |-> 0]
    ELSE IF held
         THEN [place |-> TRUE, side |-> "SELL", amount |-> Quantity(symbol)]
         ELSE [place |-> TRUE, side |-> "BUY", amount |-> sizing]

\* the end of one loop iteration
Continue(e) ==
    IF e.i < Len(e.securities)
    THEN [e EXCEPT !.pc = "context", !.i = e.i + 1]
    ELSE [e EXCEPT !.pc = "done"]

\* (variant: the exception is swallowed and the loop goes on)
AbortSwallowed(e, exc) == IF e.pc = "decide" THEN Continue(e) ELSE [e EXCEPT !.pc = "failed", !.error = exc]

\* an exception leaving execute(): the cycle is over
Abort(e, exc) == [e EXCEPT !.pc = "failed", !.error = exc]

\* line 168: await self.broker._cancel_all_orders()
ExecuteStart ==
    /\ EngineIdle
    /\ \E cancelling \in CallOutcomes :
          engine' = IF cancelling = "ok"
                    THEN [IdleEngine EXCEPT !.pc = "listing"]
                    ELSE Abort(IdleEngine, "BrokerException")
    /\ cycle' = <<>>
    /\ last' = NoCall
    /\ context' = NoContext
    /\ decision' = NoDecision
    /\ UNCHANGED <<broker, worldVars, now, pdt_strategy, pureVars>>

\* line 169: get_security_list()
ExecuteList ==
    /\ engine.pc = "listing"
    /\ \/ \E securities \in SecurityLists :
             engine' = [engine EXCEPT !.pc = "context", !.securities = securities, !.i = 1]
       \/ engine' = Abort(engine, "DataSourceException")
    /\ UNCHANGED <<broker, worldVars, now, pdt_strategy, pureVars, last, pdtVars, cycle>>

\* line 172: build_context(security)
ExecuteBuildContext ==
    /\ engine.pc = "context"
    /\ \E outcome \in RefreshChoices(broker, now) :
          LET r == ReadSeq(broker, now, ContextReads, outcome)
              e == IF engine.first_read_refreshes = NoneInt
                   THEN [engine EXCEPT !.first_read_refreshes = r.first.refreshes]
                   ELSE engine
          IN /\ broker' = r.b
             /\ last' = r.call
             /\ engine' = IF r.call.result = "ok" THEN [e EXCEPT !.pc = "position"]
                                                  ELSE Abort(e, r.call.result)
    /\ cycle' = Append(cycle, NoEntry(SecurityAt(engine.securities, engine.i)))
    /\ context' = NoContext
    /\ decision' = NoDecision
    /\ UNCHANGED <<worldVars, now, pdt_strategy, pureVars>>

\* line 173: current_position = await self.broker.get_position(security.symbol)
ExecuteGetPosition ==
    /\ engine.pc = "position"
    /\ \E outcome \in RefreshChoices(broker, now) :
          LET symbol == cycle[Len(cycle)].symbol
              r == ReadCall(broker, now, "get_position", symbol, outcome)
          IN /\ broker' = r.b
             /\ last' = r.call
             /\ engine' = IF r.call.result = "ok" THEN [engine EXCEPT !.pc = "decide"]
                                                  ELSE Abort(engine, r.call.result)
             /\ cycle' = [cycle EXCEPT ![Len(cycle)].held = (r.call.result = "ok" /\ symbol \in r.ret)]
    /\ context' = NoContext
    /\ decision' = NoDecision
    /\ UNCHANGED <<worldVars, now, pdt_strategy, pureVars>>

\* lines 176-197: evaluate exit or entry (and sizing), place the order
ExecuteDecide ==
    /\ engine.pc = "decide"
    /\ LET n == Len(cycle)
           entry == cycle[n]
       IN \E outcome \in EvalOutcomes :
            IF outcome \notin {"true", "false"}
            THEN \* the evaluation raised
                 /\ cycle' = [cycle EXCEPT ![n].outcome = outcome]
                 /\ engine' = IF IsSkipped(outcome) THEN Continue(engine) ELSE Abort(engine, outcome)
                 /\ UNCHANGED <<broker, last, pdtVars>>
            ELSE \E sizing \in SizingChoices(entry.held, outcome) :
                 IF sizing.exc # None
                 THEN \* evaluate_sizing raised
                      /\ cycle' = [cycle EXCEPT ![n].outcome = outcome, ![n].sizing_exc = sizing.exc]
                      /\ engine' = Abort(engine, sizing.exc)
                      /\ UNCHANGED <<broker, last, pdtVars>>
                 ELSE LET amount == sizing.amount
                          o == OrderFor(entry.symbol, entry.held, outcome, amount)
                      IN IF ~o.place
                         THEN /\ cycle' = [cycle EXCEPT ![n].outcome = outcome]
                              /\ engine' = Continue(engine)
                              /\ UNCHANGED <<broker, last, pdtVars>>
                         ELSE \E refreshing \in RefreshChoices(broker, now), placing \in CallOutcomes :
                              LET r == PlaceOrderCall(broker, now, entry.symbol, o.side, o.amount,
                                                      refreshing, placing)
                                  e == [engine EXCEPT !.orders = Append(@, Order(entry.symbol, o.side, o.amount))]
                              IN /\ broker' = r.b
                                 /\ last' = r.call
                                 /\ context' = r.context
                                 /\ decision' = r.decision
                                 /\ cycle' = [cycle EXCEPT ![n].outcome = outcome, ![n].sizing = amount,
                                                           ![n].side = o.side, ![n].amount = o.amount,
                                                           ![n].result = r.call.result]
                                 /\ engine' = IF r.call.result = "ok" THEN Continue(e)
                                                                      ELSE Abort(e, r.call.result)
    /\ UNCHANGED <<worldVars, now, pdt_strategy, pureVars>>

execute == ExecuteStart \/ ExecuteList \/ ExecuteBuildContext \/ ExecuteGetPosition \/ ExecuteDecide

\* Once a cycle has ended nothing reads the account or the clock before the
\* next cycle starts, so the environment's steps are interleaved from there on.
NextEngine == execute \/ (engine.pc \notin {"done", "failed"} /\ Environment)

SpecEngine == Init /\ [][NextEngine]_vars

(***************************************************************************)
(* The policies on their own: every context, every policy.                 *)
(***************************************************************************)
PolicySpace == {[kind |-> "Nun", wiggle_room |-> 0], [kind |-> "Yolo", wiggle_room |-> 0]}
               \cup {[kind |-> "Wiggle", wiggle_room |-> w] : w \in 0..MaxWiggleRoom}

ContextSpace ==
    {PDTContext(symbol, side, k, d, opened) :
        symbol \in Symbols, side \in Sides, k \in 0..MaxOpenedToday,
        d \in 0..MaxRollingCount, opened \in BOOLEAN}

InitPDT ==
    /\ ast = Unused
    /\ security = Unused
    /\ lexer = Unused
    /\ order = Unused
    /\ parser = Unused
    /\ day = Unused
    /\ tasks = Unused
    /\ w_positions = {}
    /\ w_opened = {}
    /\ w_dtc = 0
    /\ now = 0
    /\ pdt_strategy \in PolicySpace
    /\ broker = [cash |-> Cash, equity |-> Equity, positions |-> {},
                 day_trade_count |-> 0, updated_dt |-> 0, is_stale_flag |-> FALSE]
    /\ last = NoCall
    /\ context \in ContextSpace
    /\ decision = NoDecision
    /\ engine = IdleEngine
    /\ cycle = <<>>

\* base_broker.py 277-283: what _validate_pre_order makes of a decision
RaisedFor(d) == IF d.allowed THEN "ok" ELSE "PDTRuleViolationException"

\* the policy is asked about one context, and the broker surfaces its decision
EvaluateOrder ==
    /\ last.op = None
    /\ LET d == evaluate_order(pdt_strategy, context)
       IN /\ decision' = d
          /\ last' = [NoCall EXCEPT !.op = "evaluate_order", !.pdt_consulted = TRUE,
                                    !.result = RaisedFor(d),
                                    !.reason = IF d.allowed THEN None ELSE d.reason]
    /\ UNCHANGED <<broker, worldVars, now, pdt_strategy, pureVars, context, engineVars>>

NextPDT == EvaluateOrder

SpecPDT == InitPDT /\ [][NextPDT]_vars

Evaluated == last.op = "evaluate_order"

(***************************************************************************)
(* DSL evaluation (dsl/dsl_ast.py). Expression.evaluate is a coroutine     *)
(* function in BinaryExpression, CrossoverExpression and AllOf and a plain *)
(* function in AnyOf, Sizing and Literal: calling a coroutine function     *)
(* returns a coroutine object and runs nothing until it is awaited.        *)
(***************************************************************************)
\* ---- bounds of the model ----
MaxChildren == 3

MaxRules == 2

\* what awaiting a comparison gives: a boolean, or an error of its operands
ComparisonOutcomes == {"true", "false", "MissingContextValue"}

BinaryExpression(outcome) == [kind |-> "BinaryExpression", outcome |-> outcome, conditions |-> <<>>]

AllOf(conditions) == [kind |-> "AllOf", outcome |-> None, conditions |-> conditions]

AnyOf(conditions) == [kind |-> "AnyOf", outcome |-> None, conditions |-> conditions]

\* SizingRule.condition is None
NoCondition == [kind |-> "None", outcome |-> None, conditions |-> <<>>]

Literal(amount) == [kind |-> "Literal", amount |-> amount]

\* a DOLLAR_AMOUNT that is an arithmetic expression
Arithmetic == [kind |-> "BinaryExpression", amount |-> 0]

SizingRule(condition, value) == [condition |-> condition, value |-> value]

Sizing(rules) == [kind |-> "Sizing", rules |-> rules]

\* Python values: a bool, a Decimal, a coroutine object, or a raised exception
Bool(v) == [tag |-> "bool", v |-> v, exc |-> None, amount |-> 0]

Amount(a) == [tag |-> "Decimal", v |-> (a # 0), exc |-> None, amount |-> a]

Coroutine == [tag |-> "coroutine", v |-> TRUE, exc |-> None, amount |-> 0]

Raise(exc) == [tag |-> "raise", v |-> FALSE, exc |-> exc, amount |-> 0]

\* bool(value): a coroutine object is truthy
Truthy(value) == value.v

\* async def evaluate
IsAsync(e) == e.kind \in {"BinaryExpression", "AllOf"}

RECURSIVE Call(_)
RECURSIVE Awaited(_)
RECURSIVE AllOfFrom(_, _, _)
RECURSIVE AnyOfFrom(_, _)

\* AllOf.evaluate, lines 190-191: results = [await c.evaluate(context) for c in
\* conditions]; return all(results). From condition i on, the earlier ones
\* all truthy or not.
AllOfFrom(conditions, i, all) ==
    IF i > Len(conditions)
    THEN [val |-> Bool(all), evaluated |-> Len(conditions)]
    ELSE LET r == Awaited(conditions[i])
         IN IF r.tag = "raise"
            THEN [val |-> r, evaluated |-> i]
            ELSE AllOfFrom(conditions, i + 1, all /\ Truthy(r))

\* AnyOf.evaluate, line 211: any(c.evaluate(context) for c in conditions)
AnyOfFrom(conditions, i) ==
    IF i > Len(conditions)
    THEN [val |-> Bool(FALSE), evaluated |-> Len(conditions)]
    ELSE LET r == Call(conditions[i])
         IN IF r.tag = "raise"
            THEN [val |-> r, evaluated |-> i]
            ELSE IF Truthy(r)
                 THEN [val |-> Bool(TRUE), evaluated |-> i]
                 ELSE AnyOfFrom(conditions, i + 1)

\* e.evaluate(context), not awaited
Call(e) == IF IsAsync(e) THEN Coroutine ELSE AnyOfFrom(e.conditions, 1).val

\* await e.evaluate(context)
Awaited(e) ==
    IF e.kind = "BinaryExpression"
    THEN IF e.outcome \in {"true", "false"} THEN Bool(e.outcome = "true") ELSE Raise(e.outcome)
    ELSE IF e.kind = "AllOf"
         THEN AllOfFrom(e.conditions, 1, TRUE).val
         ELSE LET r == Call(e)
              IN IF r.tag = "raise" THEN r ELSE Raise("TypeError")

\* rule.value.evaluate(context), line 265
ValueOf(value) == IF value.kind = "Literal" THEN Amount(value.amount) ELSE Coroutine

RECURSIVE SizingFrom(_, _)
\* Sizing.evaluate, lines 263-266
SizingFrom(rules, i) ==
    IF i > Len(rules)
    THEN [val |-> Raise("ValueError"), evaluated |-> 0]
    ELSE LET c == rules[i].condition
             r == IF c = NoCondition THEN Bool(TRUE) ELSE Call(c)
         IN IF r.tag = "raise"
            THEN [val |-> r, evaluated |-> i]
            ELSE IF Truthy(r)
                 THEN [val |-> ValueOf(rules[i].value), evaluated |-> i]
                 ELSE SizingFrom(rules, i + 1)

\* ---- the expressions evaluated ----
SeqsUpTo(S, n) == UNION {[1..k -> S] : k \in 0..n}

Comparisons == {BinaryExpression(o) : o \in ComparisonOutcomes}

\* conditions of a composite or of a sizing rule: a comparison, or a composite
\* of at most one comparison
Conditions ==
    Comparisons \cup {AllOf(cs) : cs \in SeqsUpTo(Comparisons, 1)}
                \cup {AnyOf(cs) : cs \in SeqsUpTo(Comparisons, 1)}

Composites ==
    {AllOf(cs) : cs \in SeqsUpTo(Conditions, MaxChildren)}
        \cup {AnyOf(cs) : cs \in SeqsUpTo(Conditions, MaxChildren)}

RuleValues == {Literal(1000), Literal(2000), Arithmetic}

SizingRules == {SizingRule(c, v) : c \in {NoCondition} \cup Conditions, v \in RuleValues}

Sizings == {Sizing(rules) : rules \in SeqsUpTo(SizingRules, MaxRules)}

NotEvaluated == [tag |-> None, v |-> FALSE, exc |-> None, amount |-> 0]

InitAST ==
    /\ w_positions = {}
    /\ w_opened = {}
    /\ w_dtc = 0
    /\ now = 0
    /\ pdt_strategy = [kind |-> "Nun", wiggle_room |-> 0]
    /\ broker = [cash |-> Cash, equity |-> Equity, positions |-> {},
                 day_trade_count |-> 0, updated_dt |-> 0, is_stale_flag |-> FALSE]
    /\ last = NoCall
    /\ context = NoContext
    /\ decision = NoDecision
    /\ engine = IdleEngine
    /\ cycle = <<>>
    /\ security = Unused
    /\ lexer = Unused
    /\ order = Unused
    /\ parser = Unused
    /\ day = Unused
    /\ tasks = Unused
    /\ \E root \in Composites \cup Sizings :
          ast = [root |-> root, done |-> FALSE, val |-> NotEvaluated, evaluated |-> 0]

astOthers == <<broker, worldVars, now, pdt_strategy, last, pdtVars, engineVars, security, lexer, order, parser, day, tasks>>

\* await AllOf(conditions).evaluate(context)
EvaluateAllOf ==
    /\ ~ast.done
    /\ ast.root.kind = "AllOf"
    /\ LET r == AllOfFrom(ast.root.conditions, 1, TRUE)
       IN ast' = [ast EXCEPT !.done = TRUE, !.val = r.val, !.evaluated = r.evaluated]
    /\ UNCHANGED astOthers

\* AnyOf(conditions).evaluate(context)
EvaluateAnyOf ==
    /\ ~ast.done
    /\ ast.root.kind = "AnyOf"
    /\ LET r == AnyOfFrom(ast.root.conditions, 1)
       IN ast' = [ast EXCEPT !.done = TRUE, !.val = r.val, !.evaluated = r.evaluated]
    /\ UNCHANGED astOthers

\* Sizing(rules).evaluate(context)
EvaluateSizing ==
    /\ ~ast.done
    /\ ast.root.kind = "Sizing"
    /\ LET r == SizingFrom(ast.root.rules, 1)
       IN ast' = [ast EXCEPT !.done = TRUE, !.val = r.val, !.evaluated = r.evaluated]
    /\ UNCHANGED astOthers

NextAST == EvaluateAllOf \/ EvaluateAnyOf \/ EvaluateSizing

SpecAST == InitAST /\ [][NextAST]_vars

(***************************************************************************)
(* Security (core/security_provider/models.py): moving averages over the   *)
(* daily bars, oldest first, and the crossover of two of them.             *)
(***************************************************************************)
\* ---- bounds of the model ----
MaxBars == 6

MaxClose == 3

\* Timeframe: the length of a period in seconds
Timeframe == [m15 |-> 900, d1 |-> 86400, d5 |-> 432000]

Timeframes == DOMAIN Timeframe

to_days(period) == Timeframe[period] \div 86400

\* Money(amount) of a quotient of integers, kept as the fraction num/den
MoneyOf(num, den) == [tag |-> "Money", num |-> num, den |-> den]

NoMoney == [tag |-> "None", num |-> 0, den |-> 1]

DivisionByZero == [tag |-> "raise", num |-> 0, den |-> 1]

RECURSIVE SumCloses(_)
\* sum(bar.close.amount for bar in bars)
SumCloses(bars) == IF bars = <<>> THEN 0 ELSE Head(bars) + SumCloses(Tail(bars))

\* bars[:-offset], the whole list when offset is 0
DropLast(bars, offset) ==
    IF offset = 0 THEN bars
    ELSE SubSeq(bars, 1, IF Len(bars) > offset THEN Len(bars) - offset ELSE 0)

\* bars[-index:], the whole list when index is 0
LastBars(bars, index) ==
    IF index = 0 \/ index >= Len(bars) THEN bars
    ELSE SubSeq(bars, Len(bars) - index + 1, Len(bars))

\* a.amount < b.amount. The quotients are Decimals of 28 significant digits;
\* two distinct fractions of these sizes differ long before the 28th digit, so
\* the Decimals order as the fractions do.
AmountLess(a, b) == a.num * b.den < b.num * a.den

\* a short moving average counted as crossing on equality of the previous day
has_bullish_crossover_not_strict(short_today, long_today, short_yesterday, long_yesterday) ==
    ~AmountLess(long_yesterday, short_yesterday) /\ AmountLess(long_today, short_today)

compute_moving_average(bars, period, offset) ==
    LET relevant_bars == DropLast(bars, offset)
        index == to_days(period)
    IN IF Len(relevant_bars) < index THEN NoMoney
       ELSE IF index = 0 THEN DivisionByZero
            ELSE MoneyOf(SumCloses(LastBars(relevant_bars, index)), index)

\* line 105, the four averages present
has_bullish_crossover(short_today, long_today, short_yesterday, long_yesterday) ==
    AmountLess(short_yesterday, long_yesterday) /\ AmountLess(long_today, short_today)

has_bullish_moving_average_crossover(bars, short_period, long_period) ==
    LET short_today == compute_moving_average(bars, short_period, 0)
        long_today == compute_moving_average(bars, long_period, 0)
        short_yesterday == compute_moving_average(bars, short_period, 1)
        long_yesterday == compute_moving_average(bars, long_period, 1)
        averages == {short_today, long_today, short_yesterday, long_yesterday}
    IN IF DivisionByZero \in averages THEN "ZeroDivisionError"
       ELSE IF NoMoney \in averages THEN "False"
            ELSE IF has_bullish_crossover(short_today, long_today, short_yesterday, long_yesterday)
                 THEN "True" ELSE "False"

\* ---- the securities queried ----
Closes == 1..MaxClose

BarHistories == SeqsUpTo(Closes, MaxBars)

InitSecurity ==
    /\ w_positions = {}
    /\ w_opened = {}
    /\ w_dtc = 0
    /\ now = 0
    /\ pdt_strategy = [kind |-> "Nun", wiggle_room |-> 0]
    /\ broker = [cash |-> Cash, equity |-> Equity, positions |-> {},
                 day_trade_count |-> 0, updated_dt |-> 0, is_stale_flag |-> FALSE]
    /\ last = NoCall
    /\ context = NoContext
    /\ decision = NoDecision
    /\ engine = IdleEngine
    /\ cycle = <<>>
    /\ ast = Unused
    /\ lexer = Unused
    /\ order = Unused
    /\ parser = Unused
    /\ day = Unused
    /\ tasks = Unused
    /\ \E bars \in BarHistories, short_period \in Timeframes, long_period \in Timeframes :
          security = [bars |-> bars, short_period |-> short_period, long_period |-> long_period,
                      done |-> FALSE, val |-> None]

securityOthers == <<broker, worldVars, now, pdt_strategy, last, pdtVars, engineVars, ast, lexer, order, parser, day, tasks>>

\* security.has_bullish_moving_average_crossover(short_period, long_period)
BullishCrossover ==
    /\ ~security.done
    /\ security' = [security EXCEPT !.done = TRUE,
                       !.val = has_bullish_moving_average_crossover(security.bars, security.short_period,
                                                                    security.long_period)]
    /\ UNCHANGED securityOthers

NextSecurity == BullishCrossover

SpecSecurity == InitSecurity /\ [][NextSecurity]_vars

(***************************************************************************)
(* DSL lexer (dsl/lexer.py, which dsl_loader.py and parser.py import):     *)
(* Lexer(text).tokenize() turns the lines of a strategy file into a flat   *)
(* token list with INDENT and DEDENT tokens from a stack of indent widths. *)
(* A source line is kept as its leading whitespace width and its text.     *)
(***************************************************************************)
\* ---- bounds of the model ----
MaxLines == 5

MaxDepth == 2

\* columns of one level of indentation in the inputs
IndentStep == 2

\* the identifier on each line of the inputs
Letters == <<"A", "B", "C", "D", "E", "F">>

Token(type, value, line) == [type |-> type, value |-> value, line |-> line]

\* one token for any number of levels
RepeatOnce(token, k) == IF k > 0 THEN <<token>> ELSE <<>>

\* k copies of a token
Repeat(token, k) == [i \in 1..k |-> token]

Top(indent_stack) == indent_stack[Len(indent_stack)]

RECURSIVE PopTo(_, _)
\* while n < top(stack): pop; the stack left
PopTo(indent_stack, n) ==
    IF n < Top(indent_stack)
    THEN PopTo(SubSeq(indent_stack, 1, Len(indent_stack) - 1), n)
    ELSE indent_stack

\* at end of input every level counted once more, the bottom 0 included
RemainingLevelsWithBottom(indent_stack) == Len(indent_stack)

\* the levels > 0 left on the stack at end of input
RemainingLevels(indent_stack) == Len(indent_stack) - 1

\* ---- the texts tokenized ----
Indents == {IndentStep * k : k \in 0..MaxDepth}

CodeLine(indent, text) == [kind |-> "code", indent |-> indent, text |-> text]

BlankLine == [kind |-> "blank", indent |-> 0, text |-> ""]

CommentLine == [kind |-> "comment", indent |-> 0, text |-> "#"]

LineShapes == {CodeLine(n, "") : n \in Indents} \cup {BlankLine, CommentLine}

\* line i of a text: its code is the i-th letter
LineAt(shape, i) == IF shape.kind = "code" THEN CodeLine(shape.indent, Letters[i]) ELSE shape

Texts == {[i \in 1..Len(shapes) |-> LineAt(shapes[i], i)] : shapes \in SeqsUpTo(LineShapes, MaxLines)}

InitLexer ==
    /\ w_positions = {}
    /\ w_opened = {}
    /\ w_dtc = 0
    /\ now = 0
    /\ pdt_strategy = [kind |-> "Nun", wiggle_room |-> 0]
    /\ broker = [cash |-> Cash, equity |-> Equity, positions |-> {},
                 day_trade_count |-> 0, updated_dt |-> 0, is_stale_flag |-> FALSE]
    /\ last = NoCall
    /\ context = NoContext
    /\ decision = NoDecision
    /\ engine = IdleEngine
    /\ cycle = <<>>
    /\ ast = Unused
    /\ security = Unused
    /\ order = Unused
    /\ parser = Unused
    /\ day = Unused
    /\ tasks = Unused
    /\ \E lines \in Texts :
          lexer = [lines |-> lines, line |-> 0, indent_stack |-> <<0>>, tokens |-> <<>>,
                   pc |-> "lines", done |-> FALSE]

lexerOthers == <<broker, worldVars, now, pdt_strategy, last, pdtVars, engineVars, ast, security, order, parser, day, tasks>>

\* a blank line or a comment line is skipped
SkipLine ==
    /\ lexer.pc = "lines"
    /\ lexer.line < Len(lexer.lines)
    /\ lexer.lines[lexer.line + 1].kind \in {"blank", "comment"}
    /\ lexer' = [lexer EXCEPT !.line = lexer.line + 1]
    /\ UNCHANGED lexerOthers

\* a line of code: INDENT or DEDENTs from its indent, then its tokens
ScanLine ==
    /\ lexer.pc = "lines"
    /\ lexer.line < Len(lexer.lines)
    /\ lexer.lines[lexer.line + 1].kind = "code"
    /\ LET line == lexer.line + 1
           n == lexer.lines[line].indent
           stack == lexer.indent_stack
           popped == PopTo(stack, n)
           scanned == <<Token("IDENTIFIER", lexer.lines[line].text, line)>>
       IN IF n > Top(stack)
          THEN lexer' = [lexer EXCEPT !.line = line,
                            !.indent_stack = Append(stack, n),
                            !.tokens = lexer.tokens \o <<Token("INDENT", "", line)>> \o scanned]
          ELSE IF Top(popped) # n
               THEN lexer' = [lexer EXCEPT !.line = line,
                                 !.indent_stack = popped,
                                 !.tokens = lexer.tokens
                                     \o Repeat(Token("DEDENT", "", line), Len(stack) - Len(popped)),
                                 !.pc = "LexError", !.done = TRUE]
               ELSE lexer' = [lexer EXCEPT !.line = line,
                                 !.indent_stack = popped,
                                 !.tokens = lexer.tokens
                                     \o Repeat(Token("DEDENT", "", line), Len(stack) - Len(popped))
                                     \o scanned]
    /\ UNCHANGED lexerOthers

\* end of input: a DEDENT for each level left, then EOF
EndOfInput ==
    /\ lexer.pc = "lines"
    /\ lexer.line = Len(lexer.lines)
    /\ lexer' = [lexer EXCEPT !.indent_stack = <<0>>,
                    !.tokens = lexer.tokens
                        \o Repeat(Token("DEDENT", "", lexer.line), RemainingLevels(lexer.indent_stack))
                        \o <<Token("EOF", "", lexer.line)>>,
                    !.pc = "done", !.done = TRUE]
    /\ UNCHANGED lexerOthers

NextLexer == SkipLine \/ ScanLine \/ EndOfInput

SpecLexer == InitLexer /\ [][NextLexer]_vars

\* the broker, the policy and the engine as constructed, no call made
BrokerIdle ==
    /\ w_positions = {}
    /\ w_opened = {}
    /\ w_dtc = 0
    /\ now = 0
    /\ pdt_strategy = [kind |-> "Nun", wiggle_room |-> 0]
    /\ broker = [cash |-> Cash, equity |-> Equity, positions |-> {},
                 day_trade_count |-> 0, updated_dt |-> 0, is_stale_flag |-> FALSE]
    /\ last = NoCall
    /\ context = NoContext
    /\ decision = NoDecision
    /\ engine = IdleEngine
    /\ cycle = <<>>

(***************************************************************************)
(* Order (core/broker/models.py): the validator pydantic runs after the    *)
(* fields are set; an error it raises fails the construction.              *)
(***************************************************************************)
\* ---- bounds of the model ----
MaxOrderQuantity == 2

OrderStatus == {"PENDING", "FILLED", "PARTIAL_FILL", "CANCELLED", "REJECTED"}

\* filled_at is None, or a TradingDateTime on a weekday or on a weekend
FilledAts == {None, "weekday", "weekend"}

\* Order.validate_order_state: "ok" when it returns self, else the error raised.
\* TradingDateTime has no attribute is_weekend, so line 56 raises AttributeError
\* for every filled_at that is not None; Decimal >= None raises TypeError.
validate_order_state(o) ==
    IF o.dollar_amount_requested # NoneInt /\ o.quantity_requested # NoneInt THEN "ValueError"
    ELSE IF o.filled_at # None THEN "AttributeError"
    ELSE IF o.status = "PENDING"
         THEN IF o.avg_fill_price # NoneInt THEN "ValueError"
              ELSE IF o.quantity_filled # 0 THEN "ValueError"
              ELSE IF o.filled_at # None THEN "ValueError"
              ELSE "ok"
    ELSE IF o.status = "FILLED"
         THEN IF o.avg_fill_price = NoneInt THEN "ValueError"
              ELSE IF o.quantity_filled # o.quantity_requested THEN "ValueError"
              ELSE IF o.filled_at = None THEN "ValueError"
              ELSE "ok"
    ELSE IF o.status = "PARTIAL_FILL"
         THEN IF o.avg_fill_price = NoneInt THEN "ValueError"
              ELSE IF o.quantity_requested = NoneInt THEN "TypeError"
              ELSE IF o.quantity_filled >= o.quantity_requested THEN "ValueError"
              ELSE IF o.quantity_filled <= 0 THEN "ValueError"
              ELSE IF o.filled_at = None THEN "ValueError"
              ELSE "ok"
    ELSE "ok"

\* ---- the orders constructed ----
Orders ==
    [dollar_amount_requested : {NoneInt, 1000},
     quantity_requested : {NoneInt} \cup 1..MaxOrderQuantity,
     quantity_filled : 0..MaxOrderQuantity,
     status : OrderStatus,
     avg_fill_price : {NoneInt, 100},
     filled_at : FilledAts]

InitOrder ==
    /\ BrokerIdle
    /\ ast = Unused
    /\ security = Unused
    /\ lexer = Unused
    /\ parser = Unused
    /\ day = Unused
    /\ tasks = Unused
    /\ \E o \in Orders : order = [fields |-> o, done |-> FALSE, result |-> None]

orderOthers == <<broker, worldVars, now, pdt_strategy, last, pdtVars, engineVars, ast, security, lexer, parser, day, tasks>>

\* Order(**fields)
ConstructOrder ==
    /\ ~order.done
    /\ order' = [order EXCEPT !.done = TRUE, !.result = validate_order_state(order.fields)]
    /\ UNCHANGED orderOthers

NextOrder == ConstructOrder

SpecOrder == InitOrder /\ [][NextOrder]_vars

(***************************************************************************)
(* A trading day under the Nun policy: orders go through                   *)
(* _validate_pre_order; an admitted BUY opens one position today, an       *)
(* admitted SELL of a position opened today closes it and uses one day     *)
(* trade, an admitted SELL of an older position closes it.                 *)
(***************************************************************************)
\* ---- bounds of the model ----
MaxOlderPositions == 3

NoOrderYet == [side |-> None, position_opened_today |-> FALSE, allowed |-> FALSE]

DayOrder(c, d) ==
    [side |-> c.side, position_opened_today |-> c.position_opened_today, allowed |-> d.allowed]

InitDay ==
    /\ BrokerIdle
    /\ ast = Unused
    /\ security = Unused
    /\ lexer = Unused
    /\ order = Unused
    /\ parser = Unused
    /\ tasks = Unused
    /\ \E opened \in 0..DayTradeLimit, used \in 0..DayTradeLimit, older \in 0..MaxOlderPositions :
          /\ opened + used <= DayTradeLimit
          /\ day = [positions_opened_today |-> opened, rolling_day_trade_count |-> used,
                    older_positions |-> older, last |-> NoOrderYet, done |-> FALSE]

dayOthers == <<broker, worldVars, now, pdt_strategy, last, pdtVars, engineVars, ast, security, lexer, order, parser, tasks>>

\* place_order(symbol, BUY, amount) for a symbol not held
DayBuy ==
    /\ \E symbol \in Symbols :
          LET c == PDTContext(symbol, "BUY", day.positions_opened_today, day.rolling_day_trade_count, FALSE)
              d == evaluate_order(pdt_strategy, c)
          IN day' = [day EXCEPT !.last = DayOrder(c, d),
                                !.positions_opened_today = IF d.allowed THEN @ + 1 ELSE @]
    /\ UNCHANGED dayOthers

\* place_order(symbol, SELL, amount) for a position opened today
DaySellOpenedToday ==
    /\ day.positions_opened_today > 0
    /\ \E symbol \in Symbols :
          LET c == PDTContext(symbol, "SELL", 0, day.rolling_day_trade_count, TRUE)
              d == evaluate_order(pdt_strategy, c)
          IN day' = [day EXCEPT !.last = DayOrder(c, d),
                                !.positions_opened_today = IF d.allowed THEN @ - 1 ELSE @,
                                !.rolling_day_trade_count = IF d.allowed THEN @ + 1 ELSE @]
    /\ UNCHANGED dayOthers

\* place_order(symbol, SELL, amount) for a position opened on an earlier day
DaySellOlder ==
    /\ day.older_positions > 0
    /\ \E symbol \in Symbols :
          LET c == PDTContext(symbol, "SELL", 0, day.rolling_day_trade_count, FALSE)
              d == evaluate_order(pdt_strategy, c)
          IN day' = [day EXCEPT !.last = DayOrder(c, d),
                                !.older_positions = IF d.allowed THEN @ - 1 ELSE @]
    /\ UNCHANGED dayOthers

NextDay == DayBuy \/ DaySellOpenedToday \/ DaySellOlder

SpecDay == InitDay /\ [][NextDay]_vars

(***************************************************************************)
(* DSL parser (dsl/parser.py): recursive descent over the token list.      *)
(* Every parse function takes the token list and the position (from 1) and *)
(* gives the node parsed and the position after it, or the ParserError     *)
(* raised with its line.                                                   *)
(***************************************************************************)
Keywords == {"STRATEGY", "NAME", "DESCRIPTION", "ENTRY", "EXIT", "SIZING", "RULE", "CONDITION",
             "DOLLAR_AMOUNT", "ALL_OF", "ANY_OF", "CROSSED_ABOVE", "CROSSED_BELOW"}

\* str.lower() of the keywords
LowerCase ==
    "STRATEGY" :> "strategy" @@ "NAME" :> "name" @@ "DESCRIPTION" :> "description"
    @@ "ENTRY" :> "entry" @@ "EXIT" :> "exit" @@ "SIZING" :> "sizing" @@ "RULE" :> "rule"
    @@ "CONDITION" :> "condition" @@ "DOLLAR_AMOUNT" :> "dollar_amount" @@ "ALL_OF" :> "all_of"
    @@ "ANY_OF" :> "any_of" @@ "CROSSED_ABOVE" :> "crossed_above" @@ "CROSSED_BELOW" :> "crossed_below"

\* str.upper(): the texts of the model are keywords in lower case, or already upper case
upper(value) ==
    IF \E k \in Keywords : LowerCase[k] = value
    THEN CHOOSE k \in Keywords : LowerCase[k] = value
    ELSE value

\* int(token.value) of the numbers of the model
IntOf == "5" :> 5 @@ "100" :> 100 @@ "1000" :> 1000 @@ "2000" :> 2000

\* value.strip('"') of the strings of the model
Stripped == "\"x\"" :> "x" @@ "\"y\"" :> "y"

Identifier(name) == [kind |-> "Identifier", name |-> name]

StringLiteral(text) == [kind |-> "Literal", text |-> text]

\* BinaryExpression(left, operator, right) as the parser builds it
Binary(left, operator, right) ==
    [kind |-> "BinaryExpression", left |-> left, operator |-> operator, right |-> right]

StrategyAST(name, description, entry, exit, sizing) ==
    [kind |-> "StrategyAST", name |-> name, description |-> description,
     entry |-> entry, exit |-> exit, sizing |-> sizing]

\* a parse function returned node, the next token is at pos
Parsed(pos, node) == [ok |-> TRUE, pos |-> pos, node |-> node, line |-> NoneInt, exc |-> None]

\* raise ParserError(message, line)
ParserError(line) == [ok |-> FALSE, pos |-> 0, node |-> NoCondition, line |-> line, exc |-> "ParserError"]

\* Parser.current, lines 27-32
current(tokens, pos) ==
    IF pos <= Len(tokens) THEN tokens[pos]
    ELSE Token("EOF", "", IF tokens = <<>> THEN 0 ELSE tokens[Len(tokens)].line)

\* Parser.expect, lines 37-45; value None matches any value
expect(tokens, pos, token_type, value) ==
    LET token == current(tokens, pos)
    IN IF token.type # token_type \/ (value # None /\ token.value # value)
       THEN ParserError(token.line)
       ELSE Parsed(pos + 1, token)

IsComposite(token) == token.type = "IDENTIFIER" /\ upper(token.value) \in {"ALL_OF", "ANY_OF"}

AtBlockEnd(tokens, pos) == current(tokens, pos).type \in {"DEDENT", "EOF"}

\* the element of a one-element set: Only({e(x) : x \in {v}}) is e(v), with v
\* computed once and named x
Only(S) == CHOOSE element \in S : TRUE

RECURSIVE parse_expression(_, _)
RECURSIVE parse_composite_block_rest(_, _, _)
RECURSIVE parse_arithmetic(_, _)
RECURSIVE parse_arithmetic_rest(_, _, _)
RECURSIVE parse_term_rest(_, _, _)
RECURSIVE parse_factor(_, _)

\* the parenthesised expression of parse_factor, lines 200-204
parse_parenthesised(tokens, pos) ==
    Only({IF ~expr.ok THEN expr
          ELSE LET closed == expect(tokens, expr.pos, "RIGHT_PAREN", None)
               IN IF ~closed.ok THEN closed ELSE Parsed(closed.pos, expr.node)
          : expr \in {parse_arithmetic(tokens, pos + 1)}})

\* lines 182-206
parse_factor(tokens, pos) ==
    LET token == current(tokens, pos)
    IN IF token.type = "NUMBER" THEN Parsed(pos + 1, Literal(IntOf[token.value]))
       ELSE IF token.type = "STRING" THEN Parsed(pos + 1, StringLiteral(Stripped[token.value]))
       ELSE IF token.type = "IDENTIFIER" THEN Parsed(pos + 1, Identifier(token.value))
       ELSE IF token.type = "LEFT_PAREN" THEN parse_parenthesised(tokens, pos)
       ELSE ParserError(token.line)

\* the while loop of parse_term, lines 175-179
parse_term_rest(tokens, pos, expr) ==
    LET token == current(tokens, pos)
    IN IF token.type = "OPERATOR" /\ token.value \in {"*", "/"}
       THEN Only({IF ~right.ok THEN right
                  ELSE parse_term_rest(tokens, right.pos, Binary(expr, token.value, right.node))
                  : right \in {parse_factor(tokens, pos + 1)}})
       ELSE Parsed(pos, expr)

\* lines 173-180
parse_term(tokens, pos) ==
    Only({IF ~expr.ok THEN expr ELSE parse_term_rest(tokens, expr.pos, expr.node)
          : expr \in {parse_factor(tokens, pos)}})

\* the while loop of parse_arithmetic, lines 166-170
parse_arithmetic_rest(tokens, pos, expr) ==
    LET token == current(tokens, pos)
    IN IF token.type = "OPERATOR" /\ token.value \in {"+", "-"}
       THEN Only({IF ~right.ok THEN right
                  ELSE parse_arithmetic_rest(tokens, right.pos, Binary(expr, token.value, right.node))
                  : right \in {parse_term(tokens, pos + 1)}})
       ELSE Parsed(pos, expr)

\* lines 164-171
parse_arithmetic(tokens, pos) ==
    Only({IF ~expr.ok THEN expr ELSE parse_arithmetic_rest(tokens, expr.pos, expr.node)
          : expr \in {parse_term(tokens, pos)}})

\* lines 146-162
parse_comparison(tokens, pos) ==
    Only({IF ~left.ok THEN left
          ELSE LET token == current(tokens, left.pos)
               IN IF /\ token.type \in {"OPERATOR", "IDENTIFIER"}
                     /\ upper(token.value) \in {">", "<", "==", "CROSSED_ABOVE", "CROSSED_BELOW"}
                  THEN Only({IF ~right.ok THEN right
                             ELSE Parsed(right.pos, Binary(left.node, upper(token.value), right.node))
                             : right \in {parse_arithmetic(tokens, left.pos + 1)}})
                  ELSE left
          : left \in {parse_arithmetic(tokens, pos)}})

\* the while loop of parse_composite_block, lines 140-142
parse_composite_block_rest(tokens, pos, exprs) ==
    IF AtBlockEnd(tokens, pos) THEN Parsed(pos, exprs)
    ELSE Only({IF ~expr.ok THEN expr
               ELSE parse_composite_block_rest(tokens, expr.pos, Append(exprs, expr.node))
               : expr \in {parse_expression(tokens, pos)}})

\* lines 137-144
parse_composite_block(tokens, pos) ==
    LET opened == expect(tokens, pos, "INDENT", None)
    IN IF ~opened.ok THEN opened
       ELSE Only({IF ~exprs.ok THEN exprs
                  ELSE LET closed == expect(tokens, exprs.pos, "DEDENT", None)
                       IN IF ~closed.ok THEN closed ELSE Parsed(closed.pos, exprs.node)
                  : exprs \in {parse_composite_block_rest(tokens, opened.pos, <<>>)}})

\* AllOf(exprs) or AnyOf(exprs) for the composite operator read
CompositeOf(comp, exprs) == IF comp = "ALL_OF" THEN AllOf(exprs) ELSE AnyOf(exprs)

\* the composite branch of parse_expression, lines 124-131 (and of
\* parse_condition_block, lines 251-258, up to its DEDENT)
parse_composite(tokens, pos) ==
    Only({IF ~exprs.ok THEN exprs
          ELSE Parsed(exprs.pos, CompositeOf(upper(current(tokens, pos).value), exprs.node))
          : exprs \in {parse_composite_block(tokens, pos + 1)}})

\* lines 121-135
parse_expression(tokens, pos) ==
    IF IsComposite(current(tokens, pos)) THEN parse_composite(tokens, pos)
    ELSE parse_comparison(tokens, pos)

\* (variant: the block may hold any one expression)
parse_entry_or_exit_any_expression(tokens, pos) ==
    LET opened == expect(tokens, pos, "INDENT", None)
    IN IF ~opened.ok THEN opened
       ELSE Only({IF ~expr.ok THEN expr
                  ELSE LET closed == expect(tokens, expr.pos, "DEDENT", None)
                       IN IF ~closed.ok THEN closed ELSE Parsed(closed.pos, expr.node)
                  : expr \in {parse_expression(tokens, opened.pos)}})

\* lines 86-106
parse_entry_or_exit(tokens, pos) ==
    LET opened == expect(tokens, pos, "INDENT", None)
    IN IF ~opened.ok THEN opened
       ELSE LET token == current(tokens, opened.pos)
            IN IF ~IsComposite(token) THEN ParserError(token.line)
               ELSE Only({IF ~expr.ok THEN expr
                          ELSE IF current(tokens, expr.pos).type # "DEDENT" THEN ParserError(token.line)
                          ELSE Parsed(expr.pos + 1, expr.node)
                          : expr \in {parse_expression(tokens, opened.pos)}})

\* lines 243-263
parse_condition_block(tokens, pos) ==
    LET opened == expect(tokens, pos, "INDENT", None)
    IN IF ~opened.ok THEN opened
       ELSE Only({IF ~expr.ok THEN expr
                  ELSE LET closed == expect(tokens, expr.pos, "DEDENT", None)
                       IN IF ~closed.ok THEN closed ELSE Parsed(closed.pos, expr.node)
                  : expr \in {IF IsComposite(current(tokens, opened.pos))
                               THEN parse_composite(tokens, opened.pos)
                               ELSE parse_expression(tokens, opened.pos)}})

RECURSIVE parse_sizing_rule_rest(_, _, _)
\* the DOLLAR_AMOUNT field of parse_sizing_rule, lines 229-233
parse_dollar_amount(tokens, pos) ==
    LET opened == expect(tokens, pos, "INDENT", None)
    IN IF ~opened.ok THEN opened
       ELSE Only({IF ~value.ok THEN value
                  ELSE LET closed == expect(tokens, value.pos, "DEDENT", None)
                       IN IF ~closed.ok THEN closed ELSE Parsed(closed.pos, value.node)
                  : value \in {parse_expression(tokens, opened.pos)}})

\* the while loop of parse_sizing_rule, lines 223-235, with condition and value so far
parse_sizing_rule_rest(tokens, pos, rule) ==
    IF AtBlockEnd(tokens, pos) THEN Parsed(pos, rule)
    ELSE LET field_token == expect(tokens, pos, "IDENTIFIER", None)
         IN IF ~field_token.ok THEN field_token
            ELSE LET field_name == upper(field_token.node.value)
                 IN IF field_name = "CONDITION"
                    THEN Only({IF ~condition.ok THEN condition
                               ELSE parse_sizing_rule_rest(tokens, condition.pos,
                                                           [rule EXCEPT !.condition = condition.node])
                               : condition \in {parse_condition_block(tokens, field_token.pos)}})
                    ELSE IF field_name = "DOLLAR_AMOUNT"
                    THEN Only({IF ~value.ok THEN value
                               ELSE parse_sizing_rule_rest(tokens, value.pos,
                                                           [rule EXCEPT !.value = value.node])
                               : value \in {parse_dollar_amount(tokens, field_token.pos)}})
                    ELSE ParserError(field_token.node.line)

\* lines 218-241
parse_sizing_rule(tokens, pos) ==
    LET opened == expect(tokens, pos, "INDENT", None)
    IN IF ~opened.ok THEN opened
       ELSE Only({IF ~rule.ok THEN rule
                  ELSE LET closed == expect(tokens, rule.pos, "DEDENT", None)
                       IN IF ~closed.ok THEN closed
                          ELSE IF rule.node.value = NoCondition THEN ParserError(NoneInt)
                          ELSE Parsed(closed.pos, rule.node)
                  : rule \in {parse_sizing_rule_rest(tokens, opened.pos,
                                                     SizingRule(NoCondition, NoCondition))}})

RECURSIVE parse_sizing_rest(_, _, _)
\* the while loop of parse_sizing, lines 211-214
parse_sizing_rest(tokens, pos, rules) ==
    IF AtBlockEnd(tokens, pos) THEN Parsed(pos, rules)
    ELSE LET keyword == expect(tokens, pos, "IDENTIFIER", "RULE")
         IN IF ~keyword.ok THEN keyword
            ELSE Only({IF ~rule.ok THEN rule
                       ELSE parse_sizing_rest(tokens, rule.pos, Append(rules, rule.node))
                       : rule \in {parse_sizing_rule(tokens, keyword.pos)}})

\* lines 208-216
parse_sizing(tokens, pos) ==
    LET opened == expect(tokens, pos, "INDENT", None)
    IN IF ~opened.ok THEN opened
       ELSE Only({IF ~rules.ok THEN rules
                  ELSE LET closed == expect(tokens, rules.pos, "DEDENT", None)
                       IN IF ~closed.ok THEN closed ELSE Parsed(closed.pos, Sizing(rules.node))
                  : rules \in {parse_sizing_rest(tokens, opened.pos, <<>>)}})

RECURSIVE parse_strategy_rest(_, _, _)
\* the while loop of parse_strategy, lines 59-75, with the fields read so far
parse_strategy_rest(tokens, pos, fields) ==
    IF AtBlockEnd(tokens, pos) THEN Parsed(pos, fields)
    ELSE LET field_token == expect(tokens, pos, "IDENTIFIER", None)
         IN IF ~field_token.ok THEN field_token
            ELSE LET field_name == upper(field_token.node.value)
                 IN IF field_name \in {"NAME", "DESCRIPTION"}
                    THEN LET value_token == expect(tokens, field_token.pos, "STRING", None)
                         IN IF ~value_token.ok THEN value_token
                            ELSE parse_strategy_rest(tokens, value_token.pos,
                                     IF field_name = "NAME"
                                     THEN [fields EXCEPT !.name = Stripped[value_token.node.value]]
                                     ELSE [fields EXCEPT !.description = Stripped[value_token.node.value]])
                    ELSE IF field_name \in {"ENTRY", "EXIT"}
                    THEN Only({IF ~expr.ok THEN expr
                               ELSE parse_strategy_rest(tokens, expr.pos,
                                        IF field_name = "ENTRY"
                                        THEN [fields EXCEPT !.entry = expr.node]
                                        ELSE [fields EXCEPT !.exit = expr.node])
                               : expr \in {parse_entry_or_exit(tokens, field_token.pos)}})
                    ELSE IF field_name = "SIZING"
                    THEN Only({IF ~sizing.ok THEN sizing
                               ELSE parse_strategy_rest(tokens, sizing.pos,
                                                        [fields EXCEPT !.sizing = sizing.node])
                               : sizing \in {parse_sizing(tokens, field_token.pos)}})
                    ELSE ParserError(field_token.node.line)

\* lines 50-84
parse_strategy(tokens) ==
    LET keyword == expect(tokens, 1, "IDENTIFIER", "STRATEGY")
    IN IF ~keyword.ok THEN keyword
       ELSE LET opened == expect(tokens, keyword.pos, "INDENT", None)
            IN IF ~opened.ok THEN opened
               ELSE Only({IF ~fields.ok THEN fields
                          ELSE LET closed == expect(tokens, fields.pos, "DEDENT", None)
                               IN IF ~closed.ok THEN closed
                                  ELSE Parsed(closed.pos,
                                           [fields.node EXCEPT
                                               !.name = IF @ = None THEN "" ELSE @,
                                               !.description = IF @ = None THEN "" ELSE @])
                          : fields \in {parse_strategy_rest(tokens, opened.pos,
                                            StrategyAST(None, None, NoCondition, NoCondition, NoCondition))}})

\* Parser(tokens).parse(), lines 47-48
parse(tokens) == parse_strategy(tokens)

\* ---- the strategy sources parsed ----
Word(type, value) == [type |-> type, value |-> value]

Ident(name) == Word("IDENTIFIER", name)

\* a source line: its leading whitespace in levels and the lexemes on it
SourceLine(level, words) == [level |-> level, words |-> words]

\* the lines of a block, one level deeper
Indented(block) == [i \in 1..Len(block) |-> SourceLine(block[i].level + 1, block[i].words)]

\* a line with a keyword, and the block under it
Under(keyword, block) == <<SourceLine(0, <<Ident(keyword)>>)>> \o Indented(block)

ComparisonTexts ==
    {<<Ident("MA5"), Word("OPERATOR", ">"), Ident("MA20")>>,
     <<Ident("MA5"), Ident("CROSSED_ABOVE"), Ident("MA20")>>,
     <<Ident("CURRENT_PRICE"), Ident("CROSSED_ABOVE"), Ident("MA20")>>,
     <<Ident("MA5"), Ident("CROSSED_BELOW"), Word("NUMBER", "100")>>,
     <<Ident("CURRENT_PRICE"), Word("OPERATOR", "*"), Word("NUMBER", "5"), Word("OPERATOR", "<"),
       Ident("MA5"), Word("OPERATOR", "+"), Word("NUMBER", "100")>>}

PlainComparison == <<SourceLine(0, <<Ident("MA5"), Word("OPERATOR", ">"), Ident("MA20")>>)>>

Bare(c) == <<SourceLine(0, c)>>

\* the blocks written under ENTRY: a composite, or what the grammar does not allow there
EntryBlocks ==
    UNION {{Under("ALL_OF", Bare(c)),
            Under("ANY_OF", Bare(c) \o PlainComparison),
            Under("ALL_OF", Under("ANY_OF", Bare(c))),
            Bare(c)} : c \in ComparisonTexts}
    \cup {Under("ALL_OF", PlainComparison) \o Under("ANY_OF", PlainComparison),
          Under("ALL_OF", PlainComparison) \o PlainComparison,
          <<>>}

ExitBlocks ==
    {Under("ANY_OF", PlainComparison), PlainComparison, Under("ALL_OF", PlainComparison) \o PlainComparison}

DollarAmount(number) == Under("DOLLAR_AMOUNT", <<SourceLine(0, <<Word("NUMBER", number)>>)>>)

SizingBlocks ==
    {Under("RULE", DollarAmount("1000")),
     Under("RULE", Under("CONDITION", PlainComparison) \o DollarAmount("1000"))
        \o Under("RULE", DollarAmount("2000")),
     Under("RULE", Under("CONDITION", Under("ANY_OF", PlainComparison)) \o DollarAmount("2000")),
     Under("RULE", Under("CONDITION", PlainComparison))}

\* the text of a strategy with these blocks
StrategyText(entry, exit, sizing) ==
    Under("STRATEGY",
          <<SourceLine(0, <<Ident("NAME"), Word("STRING", "\"x\"")>>),
            SourceLine(0, <<Ident("DESCRIPTION"), Word("STRING", "\"y\"")>>)>>
          \o Under("ENTRY", entry) \o Under("EXIT", exit) \o Under("SIZING", sizing))

\* the text with every occurrence of a keyword written in lower case
Lowered(text, keyword) ==
    [i \in 1..Len(text) |->
        SourceLine(text[i].level,
                   [j \in 1..Len(text[i].words) |->
                       IF text[i].words[j] = Ident(keyword) THEN Ident(LowerCase[keyword])
                       ELSE text[i].words[j]])]

Spellings == Keywords \cup {None}

Spelled(text, keyword) == IF keyword = None THEN text ELSE Lowered(text, keyword)

\* characters of the printed tree that start no token of the DSL
Colon == Word("ILLEGAL", ":")

Tee == Word("ILLEGAL", "|-")

Corner == Word("ILLEGAL", "+-")

\* a line of printed text: its leading spaces and the lexemes on it
PrintedLine(columns, words) == [columns |-> columns, words |-> words]

\* the leading whitespace columns of a line
Width(line) == IF "columns" \in DOMAIN line THEN line.columns ELSE IndentStep * line.level

\* str(value) of the numbers of the model
StrOf(amount) == CHOOSE text \in DOMAIN IntOf : IntOf[text] = amount

\* the lexeme an operator prints as
OperatorWord(operator) ==
    IF operator \in {"CROSSED_ABOVE", "CROSSED_BELOW"} THEN Ident(operator) ELSE Word("OPERATOR", operator)

\* tree_line(label, content, indent), dsl_ast.py lines 10-12
tree_line(label, content, indent) == PrintedLine(4 * indent, <<Ident(label), Colon>> \o content)

\* format_child_lines(child_text, base_indent, extra_space, connector), lines 15-30
format_child_lines(child_text, base_indent, extra_space, connector) ==
    [i \in 1..Len(child_text) |->
        IF i = 1 THEN PrintedLine(base_indent + extra_space, <<connector>> \o child_text[1].words)
        ELSE PrintedLine(base_indent + extra_space + 3, child_text[i].words)]

\* a labelled child of BinaryExpression or SizingRule: on the label's line when
\* it prints as one line, under it otherwise
LabelledChild(child_text, columns, under, connector, label) ==
    IF Len(child_text) = 1
    THEN <<PrintedLine(columns, <<connector, Ident(label), Colon>> \o child_text[1].words)>>
    ELSE <<PrintedLine(columns, <<connector, Ident(label), Colon>>)>>
         \o [i \in 1..Len(child_text) |-> PrintedLine(under, child_text[i].words)]

RECURSIVE expression_to_pretty_string(_, _)
RECURSIVE conditions_to_pretty_string(_, _, _)
\* the loop of AllOf.to_pretty_string and AnyOf.to_pretty_string over the conditions from i on
conditions_to_pretty_string(conditions, i, indent) ==
    IF i > Len(conditions) THEN <<>>
    ELSE format_child_lines(expression_to_pretty_string(conditions[i], indent + 2), 4 * indent, 4,
                            IF i = Len(conditions) THEN Corner ELSE Tee)
         \o conditions_to_pretty_string(conditions, i + 1, indent)

\* Expression.to_pretty_string(indent) of Literal, Identifier, BinaryExpression, AllOf and AnyOf
expression_to_pretty_string(node, indent) ==
    CASE node.kind = "Literal" ->
            <<tree_line("Literal",
                        IF "amount" \in DOMAIN node THEN <<Word("NUMBER", StrOf(node.amount))>>
                        ELSE <<Ident(node.text)>>,
                        indent)>>
      [] node.kind = "Identifier" -> <<tree_line("Identifier", <<Ident(node.name)>>, indent)>>
      [] node.kind = "BinaryExpression" ->
            <<PrintedLine(4 * indent, <<Ident("BinaryExpression")>>),
              PrintedLine(4 * indent + 4, <<Tee, Ident("operator"), Colon, OperatorWord(node.operator)>>)>>
            \o LabelledChild(expression_to_pretty_string(node.left, indent + 2),
                             4 * indent + 4, 4 * indent + 8, Tee, "left")
            \o LabelledChild(expression_to_pretty_string(node.right, indent + 2),
                             4 * indent + 4, 4 * indent + 8, Corner, "right")
      [] node.kind \in {"AllOf", "AnyOf"} ->
            <<PrintedLine(4 * indent, <<Ident(node.kind)>>)>>
            \o conditions_to_pretty_string(node.conditions, 1, indent)

\* SizingRule.to_pretty_string(indent), lines 229-253
rule_to_pretty_string(rule, indent) ==
    <<PrintedLine(4 * indent, <<Ident("SizingRule")>>)>>
    \o (IF rule.condition # NoCondition
        THEN LabelledChild(expression_to_pretty_string(rule.condition, 0),
                           4 * (indent + 1), 4 * (indent + 1) + 3, Tee, "condition")
        ELSE <<PrintedLine(4 * (indent + 1), <<Tee, Ident("condition"), Colon, Word("ILLEGAL", "(none)")>>)>>)
    \o LabelledChild(expression_to_pretty_string(rule.value, 0),
                     4 * (indent + 1), 4 * (indent + 1) + 3, Corner, "value")

RECURSIVE sizing_to_pretty_string(_, _, _)
\* Sizing.to_pretty_string(indent) over the rules from i on, lines 268-276
sizing_to_pretty_string(rules, i, indent) ==
    IF i > Len(rules) THEN <<>>
    ELSE format_child_lines(rule_to_pretty_string(rules[i], indent + 2), 4 * indent, 4,
                            IF i = Len(rules) THEN Corner ELSE Tee)
         \o sizing_to_pretty_string(rules, i + 1, indent)

\* a to_pretty_string that writes the strategy back as the DSL source it was read from
to_pretty_string_as_source(strategy, indent) == StrategyText(parser.entry, parser.exit, parser.sizing)

\* StrategyAST.to_pretty_string(indent), lines 303-315
to_pretty_string(strategy, indent) ==
    <<PrintedLine(4 * indent, <<Ident("StrategyAST"), Colon, Ident(strategy.name)>>),
      PrintedLine(4 * indent, <<Tee, Ident("Description"), Colon, Ident(strategy.description)>>),
      PrintedLine(4 * indent, <<Tee, Ident("Entry"), Colon>>)>>
    \o expression_to_pretty_string(strategy.entry, indent + 2)
    \o <<PrintedLine(4 * indent, <<Tee, Ident("Exit"), Colon>>)>>
    \o expression_to_pretty_string(strategy.exit, indent + 2)
    \o <<PrintedLine(4 * indent, <<Corner, Ident("Sizing"), Colon>>)>>
    \o sizing_to_pretty_string(strategy.sizing.rules, 1, indent + 2)

LexError == [ok |-> FALSE, pos |-> 0, node |-> NoCondition, line |-> NoneInt, exc |-> "LexError"]

RECURSIVE TokenizeFrom(_, _, _, _)
\* Lexer(text).tokenize() from line i on, by the indentation algorithm of the
\* lexer; a character that starts no token fails the tokenization
TokenizeFrom(text, i, indent_stack, tokens) ==
    IF i > Len(text)
    THEN [ok |-> TRUE,
          tokens |-> tokens \o Repeat(Token("DEDENT", "", Len(text)), RemainingLevels(indent_stack))
                            \o <<Token("EOF", "", Len(text))>>]
    ELSE LET n == Width(text[i])
             words == text[i].words
             popped == PopTo(indent_stack, n)
             scanned == [j \in 1..Len(words) |-> Token(words[j].type, words[j].value, i)]
         IN IF \E j \in 1..Len(words) : words[j].type = "ILLEGAL" THEN [ok |-> FALSE, tokens |-> tokens]
            ELSE IF n > Top(indent_stack)
            THEN TokenizeFrom(text, i + 1, Append(indent_stack, n),
                              tokens \o <<Token("INDENT", "", i)>> \o scanned)
            ELSE IF Top(popped) # n THEN [ok |-> FALSE, tokens |-> tokens]
            ELSE TokenizeFrom(text, i + 1, popped,
                              tokens \o Repeat(Token("DEDENT", "", i), Len(indent_stack) - Len(popped))
                                     \o scanned)

tokenize(text) == TokenizeFrom(text, 1, <<0>>, <<>>)

\* StrategyDSLLoader._parse_dsl: the AST, or the error raised
_parse_dsl(text) ==
    LET lexed == tokenize(text)
    IN IF ~lexed.ok THEN LexError
       ELSE LET ast_ == parse(lexed.tokens)
            IN [ast_ EXCEPT !.pos = 0]

NotParsed == [ok |-> FALSE, pos |-> 0, node |-> NoCondition, line |-> NoneInt, exc |-> None]

InitParser ==
    /\ BrokerIdle
    /\ ast = Unused
    /\ security = Unused
    /\ lexer = Unused
    /\ order = Unused
    /\ day = Unused
    /\ tasks = Unused
    /\ \E entry \in EntryBlocks, exit \in ExitBlocks, sizing \in SizingBlocks, spelling \in Spellings :
          parser = [entry |-> entry, exit |-> exit, sizing |-> sizing, spelling |-> spelling,
                    done |-> FALSE, result |-> NotParsed]

parserOthers == <<broker, worldVars, now, pdt_strategy, last, pdtVars, engineVars, ast, security, lexer, order, day, tasks>>

\* the text the loader reads
TextOf(p) == Spelled(StrategyText(p.entry, p.exit, p.sizing), p.spelling)

\* StrategyDSLLoader.load(filename)
Load ==
    /\ ~parser.done
    /\ parser' = [parser EXCEPT !.done = TRUE, !.result = _parse_dsl(TextOf(parser))]
    /\ UNCHANGED parserOthers

NextParser == Load

SpecParser == InitParser /\ [][NextParser]_vars

(***************************************************************************)
(* The broker from its constructor on: create() runs the first stale       *)
(* handler, then public calls are made on the broker it returned. Here a   *)
(* refresh may also return with an entry in positions that is no Position. *)
(***************************************************************************)
RefreshResults == RefreshOutcomes \cup {"non_position"}

\* BaseBroker.__init__ as create() calls it with its default policy: no state
\* yet, the stale flag set
InitRefresh ==
    /\ ast = Unused
    /\ security = Unused
    /\ lexer = Unused
    /\ order = Unused
    /\ parser = Unused
    /\ day = Unused
    /\ tasks = Unused
    /\ w_positions \in SUBSET Symbols
    /\ w_opened \in SUBSET w_positions
    /\ w_dtc \in 0..MaxDayTradeCount
    /\ now = 0
    /\ pdt_strategy = [kind |-> "Nun", wiggle_room |-> 0]
    /\ broker = [cash |-> NoneInt, equity |-> NoneInt, positions |-> NonePositions,
                 day_trade_count |-> NoneInt, updated_dt |-> 0, is_stale_flag |-> TRUE]
    /\ last = NoCall
    /\ context = NoContext
    /\ decision = NoDecision
    /\ engine = IdleEngine
    /\ cycle = <<>>

\* create() returned the broker
Created == last.op # None /\ (last.op = "create" => last.result = "ok")

\* BaseBroker.create: _initialize, then the stale handler
create ==
    /\ last.op = None
    /\ \E outcome \in RefreshResults :
          LET h == _stale_handler(broker, now, outcome)
          IN /\ broker' = h.b
             /\ last' = [NoCall EXCEPT !.op = "create",
                                       !.result = IF h.exc = None THEN "ok" ELSE h.exc,
                                       !.handler_ran = TRUE, !.stale_before = TRUE,
                                       !.refreshes = h.refreshes]
    /\ UNCHANGED <<worldVars, now, pdt_strategy, pureVars, pdtVars, engineVars>>

\* a public read on the created broker
ReadCreated(op, symbol) ==
    /\ Created
    /\ \E outcome \in (IF WasStale(broker, now) THEN RefreshResults ELSE {"ok"}) :
          LET r == ReadCall(broker, now, op, symbol, outcome)
          IN /\ broker' = r.b
             /\ last' = r.call
    /\ context' = NoContext
    /\ decision' = NoDecision
    /\ UNCHANGED <<worldVars, now, pdt_strategy, pureVars, engineVars>>

\* place_order on the created broker
PlaceOrderCreated(symbol, side, amount) ==
    /\ Created
    /\ \E outcome \in (IF WasStale(broker, now) THEN RefreshResults ELSE {"ok"}), placing \in CallOutcomes :
          LET r == PlaceOrderCall(broker, now, symbol, side, amount, outcome, placing)
          IN /\ broker' = r.b
             /\ last' = r.call
             /\ context' = r.context
             /\ decision' = r.decision
    /\ UNCHANGED <<worldVars, now, pdt_strategy, pureVars, engineVars>>

CancelAllOrdersCreated == Created /\ cancel_all_orders

NextRefresh ==
    \/ create
    \/ \E op \in ReadOps : \E symbol \in ReadArgs(op) : ReadCreated(op, symbol)
    \/ \E symbol \in Symbols, side \in Sides, amount \in OrderAmounts : PlaceOrderCreated(symbol, side, amount)
    \/ CancelAllOrdersCreated
    \/ Environment

SpecRefresh == InitRefresh /\ [][NextRefresh]_vars

(***************************************************************************)
(* Two callers of one broker on the event loop: a call runs until it       *)
(* awaits _refresh, and the other caller may run before _refresh returns.  *)
(***************************************************************************)
Tasks == {1, 2}

IdleTask == [pc |-> "idle", exc |-> None, saw_cleared |-> FALSE]

\* a created broker, fresh or made stale by a place_order that returned
InitConcurrent ==
    /\ ast = Unused
    /\ security = Unused
    /\ lexer = Unused
    /\ order = Unused
    /\ parser = Unused
    /\ day = Unused
    /\ w_positions \in SUBSET Symbols
    /\ w_opened \in SUBSET w_positions
    /\ w_dtc \in 0..MaxDayTradeCount
    /\ now = 0
    /\ pdt_strategy = [kind |-> "Nun", wiggle_room |-> 0]
    /\ \E stale \in BOOLEAN :
          broker = [cash |-> Cash, equity |-> Equity, positions |-> w_positions,
                    day_trade_count |-> w_dtc, updated_dt |-> 0, is_stale_flag |-> stale]
    /\ last = NoCall
    /\ context = NoContext
    /\ decision = NoDecision
    /\ engine = IdleEngine
    /\ cycle = <<>>
    /\ tasks = [t \in Tasks |-> IdleTask]

concurrentOthers == <<worldVars, now, pdt_strategy, last, pdtVars, engineVars,
                      ast, security, lexer, order, parser, day>>

Refreshing(t) == tasks[t].pc = "refreshing"

\* a read called by task t: _stale_handler up to "await self._refresh()"
\* (lines 338-345), or through to the return of the read when no refresh is due
CallRead(t) ==
    /\ ~Refreshing(t)
    /\ IF broker.updated_dt = NoneInt
       THEN /\ tasks' = [tasks EXCEPT ![t] = [pc |-> "failed", exc |-> "AttributeError",
                                              saw_cleared |-> \E u \in Tasks \ {t} : Refreshing(u)]]
            /\ UNCHANGED broker
       ELSE LET b1 == IF IsExpired(broker, now) THEN [broker EXCEPT !.is_stale_flag = TRUE] ELSE broker
            IN IF b1.is_stale_flag
               THEN /\ broker' = _clear_current_state(b1)
                    /\ tasks' = [tasks EXCEPT ![t] = [pc |-> "refreshing", exc |-> None,
                                                      saw_cleared |-> FALSE]]
               ELSE /\ broker' = [b1 EXCEPT !.is_stale_flag = FALSE]
                    /\ tasks' = [tasks EXCEPT ![t] = [pc |-> "returned", exc |-> None,
                                                      saw_cleared |-> b1.cash = NoneInt]]
    /\ UNCHANGED concurrentOthers

\* the _refresh task t awaits ends: _stale_handler from line 345 on, then the
\* read returns its field
RefreshReturns(t) ==
    /\ Refreshing(t)
    /\ \E outcome \in RefreshOutcomes :
          LET b2 == _refresh(broker, outcome)
              b3 == [b2 EXCEPT !.updated_dt = now]
          IN CASE outcome = "raise" ->
                    /\ broker' = b2
                    /\ tasks' = [tasks EXCEPT ![t] = [pc |-> "failed", exc |-> "BrokerException",
                                                      saw_cleared |-> FALSE]]
               [] outcome # "raise" /\ ~_is_state_in_good_order(b3) ->
                    /\ broker' = b3
                    /\ tasks' = [tasks EXCEPT ![t] = [pc |-> "failed", exc |-> "ValueError",
                                                      saw_cleared |-> FALSE]]
               [] OTHER ->
                    /\ broker' = [b3 EXCEPT !.is_stale_flag = FALSE]
                    /\ tasks' = [tasks EXCEPT ![t] = [pc |-> "returned", exc |-> None,
                                                      saw_cleared |-> FALSE]]
    /\ UNCHANGED concurrentOthers

NextConcurrent ==
    \/ \E t \in Tasks : CallRead(t)
    \/ \E t \in Tasks : RefreshReturns(t)
    \/ Environment

SpecConcurrent == InitConcurrent /\ [][NextConcurrent]_vars

(***************************************************************************)
(* Properties                                                              *)
(***************************************************************************)
HandlerErrors == {"AttributeError", "BrokerException", "ValueError"}

MutatingOk(call) == call.op \in {"place_order", "cancel_all_orders"} /\ call.result = "ok"

ObservingCall ==
    \/ \E op \in ReadOps : \E symbol \in ReadArgs(op) : Read(op, symbol)
    \/ \E symbol \in Symbols, side \in Sides, amount \in OrderAmounts : place_order(symbol, side, amount)

\* C1: after a place_order or cancel_all_orders that returned, the stale flag
\* is set, and the next state-observing call (a read or a place_order)
\* invokes _refresh.
C1_NextCallRefreshes ==
    [][/\ MutatingOk(last) => broker.is_stale_flag
       /\ (MutatingOk(last) /\ ObservingCall) => last'.refreshes = 1]_vars

\* C2: _place_order is invoked only after the policy was consulted and allowed
\* the order; every call that gets past the stale handler and the position
\* check consults the policy; a denial raises PDTRuleViolation with the
\* decision's reason and _place_order is not invoked.
C2_PolicyGuardsPlacement ==
    last.op = "place_order" =>
        /\ last.placed => (last.pdt_consulted /\ decision.allowed)
        /\ (last.result \notin HandlerErrors \cup {"NoPositionException"}) => last.pdt_consulted
        /\ (last.pdt_consulted /\ ~decision.allowed) =>
              /\ last.result = "PDTRuleViolationException"
              /\ last.reason = decision.reason
              /\ ~last.placed
        /\ (last.pdt_consulted /\ decision.allowed) => last.placed

C2_Witness ==
    /\ last.op = "place_order"
    /\ last.pdt_consulted
    /\ ~decision.allowed
    /\ last.result = "PDTRuleViolationException"

\* C3: Nun allows a BUY exactly when positions_opened_today < 3 - rolling_day_trade_count.
C3_NunBuy ==
    (Evaluated /\ pdt_strategy.kind = "Nun" /\ context.side = "BUY") =>
        (decision.allowed <=>
            context.positions_opened_today < 3 - context.rolling_day_trade_count)

C3_Witness ==
    /\ Evaluated
    /\ pdt_strategy.kind = "Nun"
    /\ context.side = "BUY"
    /\ context.rolling_day_trade_count = 1
    /\ context.positions_opened_today = 2
    /\ ~decision.allowed

Decided(entry) == entry.outcome # None

IndexOf(seq, x) == CHOOSE i \in 1..Len(seq) : seq[i] = x

\* C5: the place_order calls of a cycle come in the order of the securities
\* list, at most one per security, a SELL only for a held symbol and a BUY
\* only for one not held.
C5_OrdersFollowList ==
    /\ \A j \in 1..Len(cycle) : cycle[j].symbol = engine.securities[j]
    /\ \A a \in 1..Len(engine.orders) :
          /\ \E j \in 1..Len(cycle) :
                /\ cycle[j].symbol = engine.orders[a].symbol
                /\ cycle[j].side = engine.orders[a].side
                /\ engine.orders[a].side = "SELL" => cycle[j].held
                /\ engine.orders[a].side = "BUY" => ~cycle[j].held
          /\ \A b \in 1..Len(engine.orders) :
                a < b => IndexOf(engine.securities, engine.orders[a].symbol)
                           < IndexOf(engine.securities, engine.orders[b].symbol)

C5_Witness ==
    /\ Len(engine.orders) = 2
    /\ engine.orders[1].side = "SELL"
    /\ engine.orders[2].side = "BUY"

C7_BrokerErrorAborts ==
    [][/\ last'.result \notin {None, "ok"} =>
             /\ engine'.pc = "failed"
             /\ engine'.error = last'.result
             /\ engine'.i = Len(cycle')
             /\ \A j \in 1..(Len(cycle') - 1) : cycle'[j] = cycle[j] /\ cycle[j].result \in {None, "ok"}
       /\ engine.pc = "failed" => (<<cycle, engine>>' = <<cycle, engine>> \/ ExecuteStart)]_vars

C7_Witness ==
    /\ engine.pc = "failed"
    /\ Len(engine.securities) = 2
    /\ Len(cycle) = 1
    /\ cycle[1].result = "PDTRuleViolationException"
    /\ engine.error = "PDTRuleViolationException"

\* C8: the cycle starts with the public cancel_all_orders(), so the first
\* broker read of the cycle is served from a fresh refresh.
C8_FirstReadRefreshed ==
    engine.first_read_refreshes # NoneInt => engine.first_read_refreshes = 1

\* C9: every public broker call runs the stale handler; the handler calls
\* _refresh exactly when the stale flag was set or more than ten minutes had
\* passed since updated_dt, and at most once.
C9_StaleDiscipline ==
    last.op # None =>
        /\ last.handler_ran
        /\ last.refreshes <= 1
        /\ last.refreshes = 1 <=> last.stale_before

\* C10: a SELL for a symbol with no position in the state the stale handler
\* left fails with "no position exists"; the policy is not consulted and
\* _place_order is not invoked.
C10_SellWithoutPosition ==
    (/\ last.op = "place_order"
     /\ last.result \notin HandlerErrors
     /\ context.side = "SELL"
     /\ context.symbol \notin broker.positions) =>
        /\ last.result = "NoPositionException"
        /\ last.reason = "Cannot sell: no position exists"
        /\ ~last.pdt_consulted
        /\ ~last.placed

C10_Witness ==
    /\ last.op = "place_order"
    /\ last.result = "NoPositionException"
    /\ last.refreshes = 1
    /\ context.side = "SELL"
    /\ context.symbol \notin broker.positions

YoloDenial == "Cannot sell position opened today under YOLO strategy"

\* C11: under Nun a SELL of a position opened today is allowed exactly when
\* rolling_day_trade_count < 3, and with rolling_day_trade_count = 3 the
\* outcome is PDTStrategyException, not a PDTRuleViolation denial.
C11_NunSameDaySell ==
    (/\ Evaluated
     /\ pdt_strategy.kind = "Nun"
     /\ context.side = "SELL"
     /\ context.position_opened_today) =>
        /\ decision.allowed <=> context.rolling_day_trade_count < 3
        /\ context.rolling_day_trade_count = 3 => last.result = "PDTStrategyException"

C13_WiggleIsNunWithRoom ==
    (Evaluated /\ pdt_strategy.kind = "Wiggle") =>
        /\ context.side = "BUY" =>
              /\ decision.allowed <=>
                    context.positions_opened_today
                        < (3 - context.rolling_day_trade_count) + pdt_strategy.wiggle_room
              /\ decision.allowed =
                    NunEvaluate([context EXCEPT !.positions_opened_today =
                                                   @ - pdt_strategy.wiggle_room]).allowed
        /\ context.side = "SELL" => decision.allowed = NunEvaluate(context).allowed
        /\ ~decision.allowed => last.result = "PDTRuleViolationException"

C13_Witness ==
    /\ Evaluated
    /\ pdt_strategy.kind = "Wiggle"
    /\ pdt_strategy.wiggle_room = 2
    /\ context.side = "BUY"
    /\ context.positions_opened_today = 3
    /\ context.rolling_day_trade_count = 1
    /\ decision.allowed
    /\ ~NunEvaluate(context).allowed

\* C14: under each policy a SELL of a position not opened today is allowed,
\* whatever rolling_day_trade_count and positions_opened_today are.
C14_SellOfOlderPosition ==
    (Evaluated /\ context.side = "SELL" /\ ~context.position_opened_today) =>
        (decision.allowed /\ last.result = "ok")

C14_Witness ==
    /\ Evaluated
    /\ pdt_strategy.kind = "Nun"
    /\ context.side = "SELL"
    /\ ~context.position_opened_today
    /\ context.rolling_day_trade_count = 3
    /\ decision.allowed

\* C15: under Yolo, validating a SELL of a position opened today succeeds when
\* rolling_day_trade_count < 3 and is rejected with PDTRuleViolation and the
\* YOLO reason only when rolling_day_trade_count = 3.
C15_YoloSameDaySellByCount ==
    (/\ Evaluated
     /\ pdt_strategy.kind = "Yolo"
     /\ context.side = "SELL"
     /\ context.position_opened_today) =>
        /\ context.rolling_day_trade_count < 3 => last.result = "ok"
        /\ context.rolling_day_trade_count = 3 =>
              (last.result = "PDTRuleViolationException" /\ last.reason = YoloDenial)

\* what evaluating a condition on its own gives
Returned(c) == IF IsAsync(c) THEN Awaited(c) ELSE Call(c)

\* C16: AllOf evaluates its conditions in order and returns true exactly when
\* every condition returns true; once a condition has returned false no later
\* condition is evaluated.
C16_AllOfShortCircuits ==
    (ast.done /\ ast.root.kind = "AllOf") =>
        LET cs == ast.root.conditions
        IN /\ (ast.val = Bool(TRUE)) <=> (\A i \in 1..Len(cs) : Returned(cs[i]) = Bool(TRUE))
           /\ \A i \in 1..Len(cs) : Returned(cs[i]) = Bool(FALSE) => ast.evaluated <= i

\* C17: AnyOf evaluates its conditions in order and returns true exactly when
\* some condition returns true; once a condition has returned true no later
\* condition is evaluated.
C17_AnyOfShortCircuits ==
    (ast.done /\ ast.root.kind = "AnyOf") =>
        LET cs == ast.root.conditions
        IN /\ (\A i \in 1..Len(cs) : Returned(cs[i]).tag = "bool") =>
                 ((ast.val = Bool(TRUE)) <=> (\E i \in 1..Len(cs) : Returned(cs[i]) = Bool(TRUE)))
           /\ \A i \in 1..Len(cs) : Returned(cs[i]) = Bool(TRUE) => ast.evaluated <= i

\* C18: Sizing returns the value of the first rule, in declaration order,
\* whose condition is absent or evaluates true, and fails when no rule matches.
C18_SizingFirstMatch ==
    (ast.done /\ ast.root.kind = "Sizing") =>
        LET rules == ast.root.rules
            Matches(i) == \/ rules[i].condition = NoCondition
                          \/ Returned(rules[i].condition) = Bool(TRUE)
            matching == {i \in 1..Len(rules) : Matches(i)}
        IN (\A i \in 1..Len(rules) :
               rules[i].condition = NoCondition \/ Returned(rules[i].condition).tag = "bool") =>
              IF matching # {}
              THEN LET first == CHOOSE i \in matching : \A j \in matching : i <= j
                   IN ast.val = ValueOf(rules[first].value) /\ ast.evaluated = first
              ELSE ast.val = Raise("ValueError")

\* the periods a moving average is defined for: whole days
Daily(period) == to_days(period) >= 1

\* C19: for daily periods, has_bullish_moving_average_crossover answers True
\* exactly when none of the four moving averages (short and long, of the
\* previous day and of the current day) is missing, the short one was strictly
\* below the long one on the previous day and is strictly above it on the
\* current day; it answers False whenever one of the four is missing.
C19_BullishCrossover ==
    (security.done /\ Daily(security.short_period) /\ Daily(security.long_period)) =>
        LET short_today == compute_moving_average(security.bars, security.short_period, 0)
            long_today == compute_moving_average(security.bars, security.long_period, 0)
            short_yesterday == compute_moving_average(security.bars, security.short_period, 1)
            long_yesterday == compute_moving_average(security.bars, security.long_period, 1)
            missing == NoMoney \in {short_today, long_today, short_yesterday, long_yesterday}
        IN /\ security.val \in {"True", "False"}
           /\ missing => security.val = "False"
           /\ security.val = "True" <=>
                 /\ ~missing
                 /\ short_yesterday.num * long_yesterday.den < long_yesterday.num * short_yesterday.den
                 /\ short_today.num * long_today.den > long_today.num * short_today.den

\* a one-day average crossing above the five-day average
C19_Witness ==
    /\ security.done
    /\ security.short_period = "d1"
    /\ security.long_period = "d5"
    /\ security.val = "True"

\* the text "A\n  B\n    C\n  D\nE\n"
FiveLines ==
    <<CodeLine(0, "A"), CodeLine(2, "B"), CodeLine(4, "C"), CodeLine(2, "D"), CodeLine(0, "E")>>

\* the tokens without their line numbers
Kinds(tokens) == [i \in 1..Len(tokens) |-> <<tokens[i].type, tokens[i].value>>]

Tokenized(lines) == lexer.pc = "done" /\ lexer.lines = lines

\* C20: tokenizing the lines A / two-space B / four-space C / two-space D /
\* unindented E gives IDENT(A) INDENT IDENT(B) INDENT IDENT(C) DEDENT IDENT(D)
\* DEDENT IDENT(E) EOF: each INDENT is closed by one DEDENT, and E, back at
\* indent 0, leaves no level for a DEDENT at end of input.
C20_FiveLineTokens ==
    Tokenized(FiveLines) =>
        Kinds(lexer.tokens) = << <<"IDENTIFIER", "A">>, <<"INDENT", "">>, <<"IDENTIFIER", "B">>,
                                 <<"INDENT", "">>, <<"IDENTIFIER", "C">>, <<"DEDENT", "">>,
                                 <<"IDENTIFIER", "D">>, <<"DEDENT", "">>, <<"IDENTIFIER", "E">>,
                                 <<"EOF", "">> >>

C20_Witness == Tokenized(FiveLines) /\ Len(lexer.tokens) = 10

\* C20 as stated: the same tokens with one more DEDENT between IDENT(E) and EOF
C20_Original ==
    Tokenized(FiveLines) =>
        Kinds(lexer.tokens) = << <<"IDENTIFIER", "A">>, <<"INDENT", "">>, <<"IDENTIFIER", "B">>,
                                 <<"INDENT", "">>, <<"IDENTIFIER", "C">>, <<"DEDENT", "">>,
                                 <<"IDENTIFIER", "D">>, <<"DEDENT", "">>, <<"IDENTIFIER", "E">>,
                                 <<"DEDENT", "">>, <<"EOF", "">> >>

\* the tokens of a type among the first k
CountOf(tokens, type, k) == Cardinality({i \in 1..k : tokens[i].type = type})

\* C30: the indent stack has 0 at the bottom and is strictly increasing; while
\* the lexer has not failed, no prefix of the tokens holds more DEDENTs than
\* INDENTs; and when the lexer accepts its input, the tokens end with EOF and
\* hold as many DEDENTs as INDENTs.
C30_IndentsBalanced ==
    /\ lexer.indent_stack[1] = 0
    /\ \A i \in 1..(Len(lexer.indent_stack) - 1) : lexer.indent_stack[i] < lexer.indent_stack[i + 1]
    /\ lexer.pc # "LexError" =>
          \A k \in 0..Len(lexer.tokens) :
              CountOf(lexer.tokens, "DEDENT", k) <= CountOf(lexer.tokens, "INDENT", k)
    /\ lexer.pc = "done" =>
          /\ lexer.tokens[Len(lexer.tokens)].type = "EOF"
          /\ CountOf(lexer.tokens, "EOF", Len(lexer.tokens)) = 1
          /\ CountOf(lexer.tokens, "DEDENT", Len(lexer.tokens))
                = CountOf(lexer.tokens, "INDENT", Len(lexer.tokens))

\* an accepted text that closes two levels at once
C30_Witness ==
    /\ lexer.pc = "done"
    /\ Len(lexer.tokens) >= 3
    /\ lexer.tokens[Len(lexer.tokens) - 1].type = "DEDENT"
    /\ lexer.tokens[Len(lexer.tokens) - 2].type = "DEDENT"

Constructed == order.done /\ order.result = "ok"

\* C24: every Order whose construction succeeds requests exactly one of
\* dollar_amount and quantity, and obeys its status rule: PENDING has no fill
\* price, nothing filled and no filled_at; FILLED has a fill price, is filled
\* in full and has a filled_at on a weekday; PARTIAL_FILL is filled by more
\* than 0 and less than the quantity requested.
C24_OrderInvariants ==
    Constructed =>
        LET o == order.fields
        IN /\ (o.dollar_amount_requested # NoneInt) # (o.quantity_requested # NoneInt)
           /\ o.status = "PENDING" =>
                 o.avg_fill_price = NoneInt /\ o.quantity_filled = 0 /\ o.filled_at = None
           /\ o.status = "FILLED" =>
                 /\ o.avg_fill_price # NoneInt
                 /\ o.quantity_filled = o.quantity_requested
                 /\ o.filled_at = "weekday"
           /\ o.status = "PARTIAL_FILL" =>
                 /\ o.quantity_requested # NoneInt
                 /\ 0 < o.quantity_filled
                 /\ o.quantity_filled < o.quantity_requested

\* C26: under Nun, from a day that starts with positions_opened_today +
\* rolling_day_trade_count <= 3, after any sequence of admitted BUYs and
\* admitted SELLs fewer than 3 day trades are used whenever a position opened
\* today exists, and no SELL of a position opened today has been denied.
C26_NunCanAlwaysClose ==
    /\ day.positions_opened_today + day.rolling_day_trade_count <= DayTradeLimit
    /\ day.positions_opened_today > 0 => day.rolling_day_trade_count < DayTradeLimit
    /\ (day.last.side = "SELL" /\ day.last.position_opened_today) => day.last.allowed

\* the third position of the day has just been closed
C26_Witness ==
    /\ day.last.side = "SELL"
    /\ day.last.position_opened_today
    /\ day.last.allowed
    /\ day.rolling_day_trade_count = DayTradeLimit
    /\ day.positions_opened_today = 0

\* a block that is one ALL_OF or ANY_OF with its conditions under it
SingleComposite(block) ==
    /\ Len(block) >= 2
    /\ block[1] \in {SourceLine(0, <<Ident("ALL_OF")>>), SourceLine(0, <<Ident("ANY_OF")>>)}
    /\ \A i \in 2..Len(block) : block[i].level > 0

\* a block that is one comparison
BareComparison(block) == Len(block) = 1 /\ block[1].words \in ComparisonTexts

\* the lines of the text on which the blocks under ENTRY and under EXIT start
EntryLine(p) == 5

ExitLine(p) == 6 + Len(p.entry)

\* C21: a strategy whose ENTRY or EXIT block is not a single ALL_OF/ANY_OF
\* composite fails to parse with ParserError; when the first such block is a
\* bare comparison (and the text before it parses, so STRATEGY is written in
\* upper case), the error's line is the line of the comparison.
C21_EntryExitNeedComposite ==
    parser.done =>
        /\ (~SingleComposite(parser.entry) \/ ~SingleComposite(parser.exit)) =>
              parser.result.exc = "ParserError"
        /\ (parser.spelling # "STRATEGY" /\ BareComparison(parser.entry)) =>
              parser.result.line = EntryLine(parser)
        /\ (parser.spelling # "STRATEGY" /\ SingleComposite(parser.entry) /\ BareComparison(parser.exit)) =>
              parser.result.line = ExitLine(parser)

\* a bare comparison under EXIT, after an ENTRY that parses
C21_Witness ==
    /\ parser.done
    /\ parser.spelling = None
    /\ SingleComposite(parser.entry)
    /\ BareComparison(parser.exit)
    /\ parser.result.exc = "ParserError"
    /\ parser.result.line = ExitLine(parser)

\* the identifiers ContextIdentifier.is_moving_average accepts
MovingAverages == {"MA5", "MA20", "MA50", "MA100", "MA200"}

IsMovingAverage(node) == node.kind = "Identifier" /\ node.name \in MovingAverages

RECURSIVE CrossoverOperandsChecked(_)
\* every CROSSED_ABOVE / CROSSED_BELOW comparison under node has two moving
\* average identifiers as operands
CrossoverOperandsChecked(node) ==
    IF node.kind \in {"AllOf", "AnyOf"}
    THEN \A i \in 1..Len(node.conditions) : CrossoverOperandsChecked(node.conditions[i])
    ELSE IF node.kind = "BinaryExpression"
    THEN /\ node.operator \in {"CROSSED_ABOVE", "CROSSED_BELOW"}
            => IsMovingAverage(node.left) /\ IsMovingAverage(node.right)
         /\ CrossoverOperandsChecked(node.left)
         /\ CrossoverOperandsChecked(node.right)
    ELSE TRUE

\* C22: a CROSSED_ABOVE or CROSSED_BELOW comparison whose operands are not both
\* moving average identifiers is rejected at parse time: no AST the parser
\* returns holds such a comparison in its entry or exit expression
C22_CrossoverOperandsRejected ==
    (parser.done /\ parser.result.ok) =>
        /\ CrossoverOperandsChecked(parser.result.node.entry)
        /\ CrossoverOperandsChecked(parser.result.node.exit)

\* C23: keyword matching is case-insensitive for every keyword: a valid source
\* with one keyword written in lower case everywhere parses to the same result
\* as the source in upper case
C23_KeywordsCaseInsensitive ==
    (parser.done /\ parser.spelling # None
        /\ _parse_dsl(StrategyText(parser.entry, parser.exit, parser.sizing)).ok)
    => parser.result = _parse_dsl(StrategyText(parser.entry, parser.exit, parser.sizing))

\* the text StrategyAST.to_pretty_string prints for the parsed strategy
Printed == to_pretty_string(parser.result.node, 0)

\* C25, as stated: pretty-printing a parsed StrategyAST and parsing the printed
\* text again yields a structurally equal AST
C25_Original == (parser.done /\ parser.result.ok) => _parse_dsl(Printed) = parser.result

\* C25: the pretty-printed text of a parsed StrategyAST is a tree that opens
\* with "StrategyAST: name" and not with the STRATEGY keyword; parsing it again
\* yields no AST
C25_PrettyStringIsNotSource ==
    (parser.done /\ parser.result.ok) =>
        /\ Printed[1].words[1] = Ident("StrategyAST")
        /\ ~_parse_dsl(Printed).ok

C25_Witness ==
    /\ parser.done
    /\ parser.result.ok
    /\ parser.result.node.entry.kind = "AllOf"
    /\ Len(Printed) > Len(StrategyText(parser.entry, parser.exit, parser.sizing))
    /\ _parse_dsl(Printed).exc \in {"LexError", "ParserError"}

\* the call ran _refresh and the refresh raised, or left the state not in good order
RefreshFailed(call) ==
    /\ call.op \in {"read", "place_order"}
    /\ call.refreshes = 1
    /\ call.result \in {"BrokerException", "ValueError"}

\* C27: a call whose refresh failed (or was aborted inside _refresh) leaves the
\* broker stale, and the stale handler of the next public call performs a
\* refresh; when that call gets past the handler the state is in good order.
C27_FailedRefreshRecovers ==
    [][/\ RefreshFailed(last) => broker.is_stale_flag
       /\ (RefreshFailed(last) /\ ObservingCall) =>
             /\ last'.refreshes = 1
             /\ last'.result \notin HandlerErrors => _is_state_in_good_order(broker')]_vars

\* cash, equity, positions and day_trade_count are set and every entry of
\* positions is the Position of a symbol
InGoodOrder(b) ==
    /\ b.cash # NoneInt
    /\ b.equity # NoneInt
    /\ b.day_trade_count # NoneInt
    /\ b.positions # NonePositions
    /\ b.positions \subseteq Symbols

\* C29: whenever the stale flag is clear the state is in good order; a call
\* whose refresh left a field null or a non-Position entry fails and leaves
\* the stale flag set
C29_ClearFlagInGoodOrder ==
    /\ ~broker.is_stale_flag => InGoodOrder(broker)
    /\ (last.refreshes = 1 /\ ~InGoodOrder(broker)) =>
          /\ last.result \in HandlerErrors
          /\ broker.is_stale_flag

C29_Witness ==
    /\ last.op = "read"
    /\ last.refreshes = 1
    /\ NotAPosition \in broker.positions
    /\ last.result = "ValueError"
    /\ broker.is_stale_flag

\* C28: the broker serializes its refreshes: two calls in flight never both
\* await _refresh, and no call finds the fields cleared by the refresh the
\* other call has in progress
C28_RefreshesSerialized ==
    /\ ~(Refreshing(1) /\ Refreshing(2))
    /\ \A t \in Tasks : ~tasks[t].saw_cleared

====
